---- MODULE Spec2Model ----
(***************************************************************************)
(* Verification model of the physics-based growth system                   *)
(* (src/src/js/PhysicsGrowthSystem.js driving src/src/js/PhysicsExpansion.js).*)
(*                                                                         *)
(* Numbers.  JavaScript doubles are modelled in fixed point:               *)
(*   - coordinates, velocities, forces, displacements and                  *)
(*     equilibriumPrecision are integers counting 10^-6 (micro units);     *)
(*   - growth rates, forceStrength, maxForce, damping, baseGrowthRate and  *)
(*     deltaTime are integers counting 10^-3 (milli units);                *)
(*   - scores and threshold are plain integers, growthPower is a natural   *)
(*     exponent.                                                           *)
(* Every division truncates toward zero on the magnitude, so that          *)
(* x and -x are always computed to opposite results, as in IEEE arithmetic.*)
(* Cell indices are 1-based (JavaScript index i is i+1 here).              *)
(*                                                                         *)
(* Evaluation.  A local that the code computes once and reads many times   *)
(* is bound as  CHOOSE out \in {e(x) : x \in {value}} : TRUE  (or         *)
(* \E x \in {value} : ... in an action), which is e(value) with value      *)
(* computed once.                                                          *)
(***************************************************************************)
EXTENDS Integers, Sequences, FiniteSets, TLC

----------------------------------------------------------------------------
(* Fixed-point arithmetic helpers (Math.abs, Math.sign, Math.min, Math.max,*)
(* Math.sqrt, Math.pow and the double division).                           *)

Abs(x) == IF x < 0 THEN -x ELSE x

Sign(x) == IF x > 0 THEN 1 ELSE IF x < 0 THEN -1 ELSE 0

Min(a, b) == IF a < b THEN a ELSE b

Max(a, b) == IF a > b THEN a ELSE b

\* a / b, truncated toward zero (b > 0)
DivT(a, b) == Sign(a) * (Abs(a) \div b)

RECURSIVE SqrtSearch(_, _, _)
SqrtSearch(n, lo, hi) ==
    IF lo >= hi THEN lo
    ELSE LET mid == (lo + hi + 1) \div 2
         IN  IF mid * mid <= n THEN SqrtSearch(n, mid, hi)
                               ELSE SqrtSearch(n, lo, mid - 1)

\* floor(sqrt(n)) for 0 <= n < 2^31
ISqrt(n) == SqrtSearch(n, 0, 46340)

\* a power that multiplies by the exponent
PowLinear(b, e) == b * e

RECURSIVE Pow(_, _)
Pow(b, e) == IF e = 0 THEN 1 ELSE b * Pow(b, e - 1)

\* the three decimal digits of r / d (0 <= r < d), by long division
MilliFrac(r, d) ==
    LET r1 == (r * 10) % d
        r2 == (r1 * 10) % d
    IN  100 * ((r * 10) \div d) + 10 * ((r1 * 10) \div d) + ((r2 * 10) \div d)

\* Math.sqrt(x*x + y*y + z*z) of a micro-unit vector, in micro units.  A
\* vector along one axis has exactly the length of that component; any other
\* vector is measured on the milli grid (short vectors on the micro grid).
Norm(v) ==
    IF v[2] = 0 /\ v[3] = 0 THEN Abs(v[1])
    ELSE IF v[1] = 0 /\ v[3] = 0 THEN Abs(v[2])
    ELSE IF v[1] = 0 /\ v[2] = 0 THEN Abs(v[3])
    ELSE IF Abs(v[1]) < 20000 /\ Abs(v[2]) < 20000 /\ Abs(v[3]) < 20000
         THEN ISqrt(v[1] * v[1] + v[2] * v[2] + v[3] * v[3])
    ELSE LET x == DivT(v[1], 1000)
             y == DivT(v[2], 1000)
             z == DivT(v[3], 1000)
         IN  1000 * ISqrt(x * x + y * y + z * z)

ZeroVec == <<0, 0, 0>>

VecAdd(a, b) == <<a[1] + b[1], a[2] + b[2], a[3] + b[3]>>

VecSub(a, b) == <<a[1] - b[1], a[2] - b[2], a[3] - b[3]>>

\* Map.get(k) || fallback
MapGet(m, k, fallback) == IF k \in DOMAIN m THEN m[k] ELSE fallback

\* the empty Map
EmptyMap == [k \in {} |-> 0]

RECURSIVE SeqOf(_, _)
\* the array <<F[1], ..., F[n]>>, built element by element
SeqOf(n, F) == IF n = 0 THEN <<>> ELSE Append(SeqOf(n - 1, F), F[n])

RECURSIVE MapOf(_, _)
\* the Map with keys S and values F[k], built entry by entry
MapOf(S, F) ==
    IF S = {} THEN EmptyMap
    ELSE LET k == CHOOSE x \in S : TRUE
         IN  (k :> F[k]) @@ MapOf(S \ {k}, F)

----------------------------------------------------------------------------
(* PhysicsExpansion: the physics engine.  An engine value is the record    *)
(* [forceStrength, damping, maxForce, minDistance, forces, velocities,     *)
(*  growthRates, neighborCache, neighborCacheValid].                       *)

\* default deltaTime = 0.016 of applyPhysicsStep, in milli units
DeltaTime == 16

\* this.minDistance = 0.01, in micro units
MinDistance == 10000

\* the vertex tolerance 0.0001 of countSharedVertices, in micro units
VertexTolerance == 100

\* the activity cut-off 0.001 on growth rates, in milli units
RateEpsilon == 1

NewEngine(forceStrength, damping, maxForce) ==
    [forceStrength |-> forceStrength, damping |-> damping, maxForce |-> maxForce,
     minDistance |-> MinDistance,
     forces |-> EmptyMap, velocities |-> EmptyMap, growthRates |-> EmptyMap,
     neighborCache |-> EmptyMap, neighborCacheValid |-> FALSE]

\* the vertices of cell1 that coincide (within the tolerance) with a vertex of cell2
countSharedVertices(cell1, cell2) ==
    Cardinality({i \in DOMAIN cell1 :
        \E j \in DOMAIN cell2 :
            /\ Abs(cell1[i][1] - cell2[j][1]) < VertexTolerance
            /\ Abs(cell1[i][2] - cell2[j][2]) < VertexTolerance
            /\ Abs(cell1[i][3] - cell2[j][3]) < VertexTolerance})

\* the cache built by rebuildNeighborCache: index -> set of indices
rebuildNeighborCache(voronoiCells) ==
    LET linked(a, b) == countSharedVertices(voronoiCells[a], voronoiCells[b]) >= 2
    IN  MapOf(DOMAIN voronoiCells,
              [i \in DOMAIN voronoiCells |->
                  {j \in DOMAIN voronoiCells :
                      \/ (i < j /\ linked(i, j))
                      \/ (j < i /\ linked(j, i))}])

\* the engine after findCellNeighbors made sure the cache is valid
EnsureNeighborCache(eng, voronoiCells) ==
    IF eng.neighborCacheValid THEN eng
    ELSE [eng EXCEPT !.neighborCache = rebuildNeighborCache(voronoiCells),
                     !.neighborCacheValid = TRUE]

\* a clamp at twice maxForce
ClampedMagnitudeLoose(eng, growthRate, distance) ==
    LET dm  == distance \div 1000
        dsq == dm * dm
        t   == Abs(growthRate) * eng.forceStrength
        q   == t \div dsq
    IN  IF q >= 2 * eng.maxForce THEN 2 * eng.maxForce
        ELSE Min(q * 1000 + MilliFrac(t % dsq, dsq), 2 * eng.maxForce)

\* a magnitude that does not depend on the distance
ClampedMagnitudeFlat(eng, growthRate, distance) ==
    Min((Abs(growthRate) * eng.forceStrength) \div 1000, eng.maxForce)

\* |growthRate * forceStrength / distance^2| clamped to maxForce, in milli units
ClampedMagnitude(eng, growthRate, distance) ==
    LET dm  == distance \div 1000
        dsq == dm * dm
        t   == Abs(growthRate) * eng.forceStrength
        q   == t \div dsq
    IN  IF q >= eng.maxForce THEN eng.maxForce
        ELSE Min(q * 1000 + MilliFrac(t % dsq, dsq), eng.maxForce)

\* a force law that returns zero for coincident points only
calculateForceZeroOnly(eng, fromPoint, toPoint, growthRate) ==
    LET d        == VecSub(toPoint, fromPoint)
        distance == Norm(d)
    IN  IF distance < 1000 THEN ZeroVec
        ELSE LET dm == distance \div 1000
                 n  == [k \in 1..3 |-> DivT(DivT(d[k], 1000) * 1000, dm)]
                 clampedMagnitude ==
                     Sign(growthRate * eng.forceStrength)
                       * ClampedMagnitude(eng, growthRate, distance)
             IN  <<n[1] * clampedMagnitude, n[2] * clampedMagnitude,
                   n[3] * clampedMagnitude>>

\* a force law whose force points from toPoint back to fromPoint
calculateForceReversed(eng, fromPoint, toPoint, growthRate) ==
    LET d        == VecSub(fromPoint, toPoint)
        distance == Norm(d)
    IN  IF distance < eng.minDistance THEN ZeroVec
        ELSE LET dm == distance \div 1000
                 n  == [k \in 1..3 |-> DivT(DivT(d[k], 1000) * 1000, dm)]
                 clampedMagnitude ==
                     Sign(growthRate * eng.forceStrength)
                       * ClampedMagnitude(eng, growthRate, distance)
             IN  <<n[1] * clampedMagnitude, n[2] * clampedMagnitude,
                   n[3] * clampedMagnitude>>

calculateForce(eng, fromPoint, toPoint, growthRate) ==
    LET d        == VecSub(toPoint, fromPoint)
        distance == Norm(d)
    IN  IF distance < eng.minDistance THEN ZeroVec
        ELSE LET dm == distance \div 1000
                 n  == [k \in 1..3 |-> DivT(DivT(d[k], 1000) * 1000, dm)]
                 clampedMagnitude ==
                     Sign(growthRate * eng.forceStrength)
                       * ClampedMagnitude(eng, growthRate, distance)
             IN  <<n[1] * clampedMagnitude, n[2] * clampedMagnitude,
                   n[3] * clampedMagnitude>>

setGrowthRate(eng, cellIndex, rate) ==
    IF rate = 0
    THEN [eng EXCEPT !.growthRates =
              MapOf((DOMAIN eng.growthRates) \ {cellIndex}, eng.growthRates)]
    ELSE [eng EXCEPT !.growthRates = (cellIndex :> rate) @@ eng.growthRates]

clearGrowthRates(eng) == [eng EXCEPT !.growthRates = EmptyMap]

\* some stored velocity of the engine is not zero
Moving(eng) == \E k \in DOMAIN eng.velocities : eng.velocities[k] # ZeroVec

\* a reset that forgets to clear the velocities
EngineResetKeepsMotion(eng) ==
    [eng EXCEPT !.forces = EmptyMap, !.growthRates = EmptyMap,
                !.neighborCache = EmptyMap, !.neighborCacheValid = FALSE]

\* PhysicsExpansion.reset
EngineReset(eng) ==
    [eng EXCEPT !.forces = EmptyMap, !.velocities = EmptyMap,
                !.growthRates = EmptyMap, !.neighborCache = EmptyMap,
                !.neighborCacheValid = FALSE]

RECURSIVE SumVec(_, _)
\* the sum of F[k] over the set S
SumVec(S, F) ==
    IF S = {} THEN ZeroVec
    ELSE LET k == CHOOSE x \in S : TRUE
         IN  VecAdd(F[k], SumVec(S \ {k}, F))

\* an accumulation that applies every force to the neighbour only
AccumulateForcesNoReaction(eng, generatorPoints) ==
    LET n         == Len(generatorPoints)
        rate(k)   == MapGet(eng.growthRates, k, 0)
        drives(a) == a \in DOMAIN eng.growthRates /\ ~(Abs(rate(a)) < RateEpsilon)
        nbrs(a)   == MapGet(eng.neighborCache, a, {})
        \* what the iteration (A = a, B = b) adds to the force on B
        onB(a, b) ==
            LET forceAtoB == calculateForce(eng, generatorPoints[a],
                                            generatorPoints[b], rate(a))
                forceBtoA == IF Abs(rate(b)) > RateEpsilon
                             THEN calculateForce(eng, generatorPoints[b],
                                                 generatorPoints[a], rate(b))
                             ELSE ZeroVec
            IN  VecSub(forceAtoB, forceBtoA)
        asB(k) == SumVec({a \in 1..n : drives(a) /\ k \in nbrs(a)},
                         [a \in 1..n |-> onB(a, k)])
        asA(k) == IF drives(k)
                  THEN SumVec(nbrs(k), [b \in nbrs(k) |-> VecSub(ZeroVec, onB(k, b))])
                  ELSE ZeroVec
    IN  SeqOf(n, [k \in 1..n |-> asB(k)])

\* The forces Map after the accumulation loop of applyPhysicsStep: for every
\* cell A that has a growth rate (skipped when |rate| < 0.001) and every
\* neighbour B of A, forceAtoB is added to B and subtracted from A, and, when
\* |rate of B| > 0.001, forceBtoA is added to A and subtracted from B.
AccumulateForces(eng, generatorPoints) ==
    LET n         == Len(generatorPoints)
        rate(k)   == MapGet(eng.growthRates, k, 0)
        drives(a) == a \in DOMAIN eng.growthRates /\ ~(Abs(rate(a)) < RateEpsilon)
        nbrs(a)   == MapGet(eng.neighborCache, a, {})
        \* what the iteration (A = a, B = b) adds to the force on B
        onB(a, b) ==
            LET forceAtoB == calculateForce(eng, generatorPoints[a],
                                            generatorPoints[b], rate(a))
                forceBtoA == IF Abs(rate(b)) > RateEpsilon
                             THEN calculateForce(eng, generatorPoints[b],
                                                 generatorPoints[a], rate(b))
                             ELSE ZeroVec
            IN  VecSub(forceAtoB, forceBtoA)
        asB(k) == SumVec({a \in 1..n : drives(a) /\ k \in nbrs(a)},
                         [a \in 1..n |-> onB(a, k)])
        asA(k) == IF drives(k)
                  THEN SumVec(nbrs(k), [b \in nbrs(k) |-> VecSub(ZeroVec, onB(k, b))])
                  ELSE ZeroVec
    IN  SeqOf(n, [k \in 1..n |-> VecAdd(asB(k), asA(k))])

\* the velocity of one point after the force and the damping were applied
\* a velocity update that damps the old velocity only
StepVelocityDampsOld(eng, v, force) ==
    <<DivT(v[1] * eng.damping, 1000) + DivT(force[1] * DeltaTime, 1000),
      DivT(v[2] * eng.damping, 1000) + DivT(force[2] * DeltaTime, 1000),
      DivT(v[3] * eng.damping, 1000) + DivT(force[3] * DeltaTime, 1000)>>

StepVelocity(eng, v, force) ==
    <<DivT((v[1] + DivT(force[1] * DeltaTime, 1000)) * eng.damping, 1000),
      DivT((v[2] + DivT(force[2] * DeltaTime, 1000)) * eng.damping, 1000),
      DivT((v[3] + DivT(force[3] * DeltaTime, 1000)) * eng.damping, 1000)>>

\* an integration that returns the new positions in reverse order
IntegrateReversed(eng, generatorPoints, forces) ==
    LET n == Len(generatorPoints)
    IN  CHOOSE out \in {
          LET moved == [k \in 1..n |->
                  <<generatorPoints[k][1] + DivT(velocity[k][1] * DeltaTime, 1000),
                    generatorPoints[k][2] + DivT(velocity[k][2] * DeltaTime, 1000),
                    generatorPoints[k][3] + DivT(velocity[k][3] * DeltaTime, 1000)>>]
              RECURSIVE MaxOf(_)
              MaxOf(k) == IF k = 0 THEN 0
                          ELSE Max(MaxOf(k - 1),
                                   DivT(Norm(velocity[k]) * DeltaTime, 1000))
              keys == (DOMAIN eng.velocities) \cup (1..n)
              kept == [k \in keys |->
                          IF k \in 1..n THEN velocity[k] ELSE eng.velocities[k]]
          IN  [updatedPoints   |-> SeqOf(n, [k \in 1..n |-> moved[n + 1 - k]]),
               maxDisplacement |-> MaxOf(n),
               engine |-> [eng EXCEPT !.forces = forces,
                                      !.velocities = MapOf(keys, kept),
                                      !.neighborCacheValid = FALSE]]
          : velocity \in {SeqOf(n, [k \in 1..n |->
                StepVelocity(eng, MapGet(eng.velocities, k, ZeroVec), forces[k])])}
        } : TRUE

\* The second loop of applyPhysicsStep on the accumulated forces, and what it
\* returns: the record [updatedPoints, maxDisplacement, engine], engine being
\* the engine afterwards (velocities stored, neighbour cache invalidated).
Integrate(eng, generatorPoints, forces) ==
    LET n == Len(generatorPoints)
    IN  CHOOSE out \in {
          LET moved == [k \in 1..n |->
                  <<generatorPoints[k][1] + DivT(velocity[k][1] * DeltaTime, 1000),
                    generatorPoints[k][2] + DivT(velocity[k][2] * DeltaTime, 1000),
                    generatorPoints[k][3] + DivT(velocity[k][3] * DeltaTime, 1000)>>]
              RECURSIVE MaxOf(_)
              MaxOf(k) == IF k = 0 THEN 0
                          ELSE Max(MaxOf(k - 1),
                                   DivT(Norm(velocity[k]) * DeltaTime, 1000))
              keys == (DOMAIN eng.velocities) \cup (1..n)
              kept == [k \in keys |->
                          IF k \in 1..n THEN velocity[k] ELSE eng.velocities[k]]
          IN  [updatedPoints   |-> SeqOf(n, moved),
               maxDisplacement |-> MaxOf(n),
               engine |-> [eng EXCEPT !.forces = forces,
                                      !.velocities = MapOf(keys, kept),
                                      !.neighborCacheValid = FALSE]]
          : velocity \in {SeqOf(n, [k \in 1..n |->
                StepVelocity(eng, MapGet(eng.velocities, k, ZeroVec), forces[k])])}
        } : TRUE

\* applyPhysicsStep on an engine whose neighbour cache was looked up
StepWithCache(eng, generatorPoints) ==
    CHOOSE out \in {Integrate(eng, generatorPoints, forces) :
                    forces \in {AccumulateForces(eng, generatorPoints)}} : TRUE

\* applyPhysicsStep(generatorPoints, voronoiCells): the record
\* [updatedPoints, maxDisplacement, engine].  findCellNeighbors, which rebuilds
\* an invalid cache, is called for the cells that drive a force.
applyPhysicsStep(eng, generatorPoints, voronoiCells) ==
    LET needs == \E a \in DOMAIN eng.growthRates :
                     ~(Abs(eng.growthRates[a]) < RateEpsilon)
    IN  CHOOSE out \in {StepWithCache(eng1, generatorPoints) :
            eng1 \in {IF needs THEN EnsureNeighborCache(eng, voronoiCells) ELSE eng}}
          : TRUE

----------------------------------------------------------------------------
(* OptimizedPhysicsExpansion: the engine on typed arrays.  An engine value *)
(* is the record [forceStrength, damping, maxForce, minDistance, allocated,*)
(*  size, forces, velocities, growthRates, activeIndices, activeCount,     *)
(*  neighborOffsets, neighborIndices, neighborCacheValid].                 *)
(* allocated says that the typed arrays exist (they are null before);      *)
(* size is growthRates.length (forces and velocities have 3 * size         *)
(* elements, neighborOffsets has size + 1).  forces, velocities and        *)
(* growthRates are Maps from the cell index to the entries that are not    *)
(* zero; activeIndices and neighborOffsets are the written prefix of their *)
(* array, every element behind it being zero.  neighborIndices lists each  *)
(* cell's neighbours in ascending order.                                   *)

\* the size setGrowthRate allocates before the first physics step
EstimatedSize == 1000

\* one unit of Math.round(x * vertexPrecision), vertexPrecision = 10000, in
\* micro units
VertexGrid == 100

NewOptimizedEngine ==
    [forceStrength |-> 500, damping |-> 800, maxForce |-> 500,
     minDistance |-> MinDistance, allocated |-> FALSE, size |-> 0,
     forces |-> EmptyMap, velocities |-> EmptyMap, growthRates |-> EmptyMap,
     activeIndices |-> <<>>, activeCount |-> 0,
     neighborOffsets |-> <<>>, neighborIndices |-> <<>>,
     neighborCacheValid |-> FALSE]

\* initializeArrays(numPoints): every array is allocated anew, zero-filled
initializeArrays(eng, numPoints) ==
    [eng EXCEPT !.allocated = TRUE, !.size = numPoints,
                !.forces = EmptyMap, !.velocities = EmptyMap,
                !.growthRates = EmptyMap, !.activeIndices = <<>>,
                !.neighborOffsets = <<>>]

\* hashVertex(x, y, z): the three rounded coordinates (Math.round rounds a
\* half upwards)
hashVertex(v) ==
    <<(v[1] + VertexGrid \div 2) \div VertexGrid,
      (v[2] + VertexGrid \div 2) \div VertexGrid,
      (v[3] + VertexGrid \div 2) \div VertexGrid>>

\* buildVertexHash: vertex hash -> set of the cells that have such a vertex
buildVertexHash(voronoiCells) ==
    LET hashes == UNION {{hashVertex(voronoiCells[c][i]) :
                             i \in DOMAIN voronoiCells[c]} :
                         c \in DOMAIN voronoiCells}
    IN  MapOf(hashes,
              [h \in hashes |->
                  {c \in DOMAIN voronoiCells :
                      \E i \in DOMAIN voronoiCells[c] :
                          hashVertex(voronoiCells[c][i]) = h}])

\* the vertices of cell1 whose hash is the hash of some vertex of cell2
countSharedVerticesFast(cell1, cell2) ==
    Cardinality({i \in DOMAIN cell1 :
        hashVertex(cell1[i]) \in {hashVertex(cell2[j]) : j \in DOMAIN cell2}})

\* neighborSets with every cell's set decided from that cell's own side
neighborSetsOwnSide(voronoiCells) ==
    SeqOf(Len(voronoiCells),
          [i \in DOMAIN voronoiCells |->
              {j \in DOMAIN voronoiCells \ {i} :
                  countSharedVerticesFast(voronoiCells[i], voronoiCells[j]) >= 2}])

\* neighborSets of rebuildNeighborCache: every two cells listed under one
\* hash are counted once, the cell of lower index being cellA, and added to
\* each other's set when the count reaches 2
neighborSets(voronoiCells) ==
    CHOOSE out \in {
        LET linked(a, b) ==
                /\ \E h \in DOMAIN vertexMap :
                       a \in vertexMap[h] /\ b \in vertexMap[h]
                /\ countSharedVerticesFast(voronoiCells[a], voronoiCells[b]) >= 2
        IN  SeqOf(Len(voronoiCells),
                  [i \in DOMAIN voronoiCells |->
                      {j \in DOMAIN voronoiCells :
                          \/ (i < j /\ linked(i, j))
                          \/ (j < i /\ linked(j, i))}])
        : vertexMap \in {buildVertexHash(voronoiCells)}} : TRUE

RECURSIVE Ascending(_)
\* the elements of a set of numbers as an array
Ascending(S) ==
    IF S = {} THEN <<>>
    ELSE LET m == CHOOSE x \in S : \A y \in S : x <= y
         IN  <<m>> \o Ascending(S \ {m})

\* rebuildNeighborCache(voronoiCells) of the optimized engine: the sets are
\* flattened into neighborOffsets (a write behind the end of the typed array
\* is dropped) and neighborIndices
rebuildNeighborCacheFast(eng, voronoiCells) ==
    CHOOSE out \in {
        LET numCells == Len(voronoiCells)
            RECURSIVE Total(_)
            Total(i) == IF i = 0 THEN 0 ELSE Total(i - 1) + Cardinality(sets[i])
            RECURSIVE Flat(_)
            Flat(i) == IF i = 0 THEN <<>> ELSE Flat(i - 1) \o Ascending(sets[i])
            written == Min(eng.size + 1,
                           Max(Len(eng.neighborOffsets), numCells + 1))
        IN  [eng EXCEPT
               !.neighborOffsets =
                   SeqOf(written,
                         [k \in 1..written |->
                             IF k <= numCells + 1 THEN Total(k - 1)
                             ELSE eng.neighborOffsets[k]]),
               !.neighborIndices = Flat(numCells),
               !.neighborCacheValid = TRUE]
        : sets \in {neighborSets(voronoiCells)}} : TRUE

\* a getCellNeighbors whose slice includes the element at its end offset
getCellNeighborsInclusive(eng, cellIndex) ==
    LET at(p) == IF p <= Len(eng.neighborOffsets) THEN eng.neighborOffsets[p]
                 ELSE 0
    IN  SubSeq(eng.neighborIndices, at(cellIndex) + 1,
               Min(at(cellIndex + 1) + 1, Len(eng.neighborIndices)))

\* getCellNeighbors(cellIndex): the slice of neighborIndices between the
\* offsets of the cell and of the next one
getCellNeighbors(eng, cellIndex) ==
    LET at(p) == IF p <= Len(eng.neighborOffsets) THEN eng.neighborOffsets[p]
                 ELSE 0
    IN  SubSeq(eng.neighborIndices, at(cellIndex) + 1,
               Min(at(cellIndex + 1), Len(eng.neighborIndices)))

\* a setGrowthRate that allocates the larger arrays without copying
setGrowthRateFastNoCopy(eng, cellIndex, rate) ==
    LET eng1 == IF eng.allocated THEN eng
                ELSE initializeArrays(eng, Max(cellIndex, EstimatedSize))
        eng2 == IF cellIndex > eng1.size
                THEN initializeArrays(eng1, Max(cellIndex, eng1.size * 2))
                ELSE eng1
    IN  IF rate = 0
        THEN [eng2 EXCEPT !.growthRates =
                  MapOf((DOMAIN eng2.growthRates) \ {cellIndex}, eng2.growthRates)]
        ELSE [eng2 EXCEPT !.growthRates = (cellIndex :> rate) @@ eng2.growthRates]

\* setGrowthRate(cellIndex, rate) of the optimized engine: the arrays are
\* allocated on first use and doubled when the index is behind their end
setGrowthRateFast(eng, cellIndex, rate) ==
    LET eng1 == IF eng.allocated THEN eng
                ELSE initializeArrays(eng, Max(cellIndex, EstimatedSize))
        eng2 == IF cellIndex > eng1.size
                THEN [eng1 EXCEPT !.size = Max(cellIndex, eng1.size * 2)]
                ELSE eng1
    IN  IF rate = 0
        THEN [eng2 EXCEPT !.growthRates =
                  MapOf((DOMAIN eng2.growthRates) \ {cellIndex}, eng2.growthRates)]
        ELSE [eng2 EXCEPT !.growthRates = (cellIndex :> rate) @@ eng2.growthRates]

\* clearGrowthRates() of the optimized engine
clearGrowthRatesFast(eng) ==
    [eng EXCEPT !.growthRates = EmptyMap, !.activeCount = 0]

\* reset() of the optimized engine: the growth rates stay
resetFast(eng) ==
    [eng EXCEPT !.velocities = EmptyMap, !.forces = EmptyMap,
                !.neighborCacheValid = FALSE]

\* updateActiveIndices(): the cells whose |rate| > 0.001, in index order
updateActiveIndices(eng) ==
    LET active == Ascending({k \in DOMAIN eng.growthRates :
                                k <= eng.size
                                /\ Abs(eng.growthRates[k]) > RateEpsilon})
    IN  [eng EXCEPT !.activeCount = Len(active),
                    !.activeIndices =
                        active \o SubSeq(@, Len(active) + 1, Len(@))]

\* calculateForceFast(pointA, pointB, growthRate): the same force as
\* calculateForce, with the distance test on the squares
calculateForceFast(eng, pointA, pointB, growthRate) ==
    calculateForce(eng, pointA, pointB, growthRate)

\* an accumulation that applies the force to B only
accumulateForcesOneSided(eng, generatorPoints) ==
    LET n        == Len(generatorPoints)
        active   == {eng.activeIndices[i] : i \in 1..eng.activeCount}
        rate(k)  == MapGet(eng.growthRates, k, 0)
        nbrs(a)  == {getCellNeighbors(eng, a)[j] :
                        j \in 1..Len(getCellNeighbors(eng, a))}
        F(a, b)  == calculateForceFast(eng, generatorPoints[a],
                                       generatorPoints[b], rate(a))
        asB(k)   == SumVec({a \in active : k \in nbrs(a)},
                           [a \in active |-> F(a, k)])
    IN  SeqOf(n, [k \in 1..n |-> asB(k)])

\* The forces array after the accumulation loop of the optimized
\* applyPhysicsStep: for every active cell A and every neighbour B of A,
\* the force from A to B is added to B and subtracted from A.
accumulateForcesFast(eng, generatorPoints) ==
    LET n        == Len(generatorPoints)
        active   == {eng.activeIndices[i] : i \in 1..eng.activeCount}
        rate(k)  == MapGet(eng.growthRates, k, 0)
        nbrs(a)  == {getCellNeighbors(eng, a)[j] :
                        j \in 1..Len(getCellNeighbors(eng, a))}
        F(a, b)  == calculateForceFast(eng, generatorPoints[a],
                                       generatorPoints[b], rate(a))
        asB(k)   == SumVec({a \in active : k \in nbrs(a)},
                           [a \in active |-> F(a, k)])
        asA(k)   == IF k \in active
                    THEN SumVec(nbrs(k), [b \in nbrs(k) |-> F(k, b)])
                    ELSE ZeroVec
    IN  SeqOf(n, [k \in 1..n |-> VecSub(asB(k), asA(k))])

\* the entries of an array of vectors that are not zero, as a Map
NonZero(vectors) ==
    MapOf({k \in DOMAIN vectors : vectors[k] # ZeroVec}, vectors)

\* an integration that leaves the neighbour cache marked valid
integrateFastKeepsCache(eng, generatorPoints, forces) ==
    LET n == Len(generatorPoints)
    IN  CHOOSE out \in {
          LET d == [k \in 1..n |->
                      <<DivT(velocity[k][1] * DeltaTime, 1000),
                        DivT(velocity[k][2] * DeltaTime, 1000),
                        DivT(velocity[k][3] * DeltaTime, 1000)>>]
              RECURSIVE MaxOf(_)
              MaxOf(k) == IF k = 0 THEN 0 ELSE Max(MaxOf(k - 1), Norm(d[k]))
          IN  [updatedPoints   |-> SeqOf(n, [k \in 1..n |->
                                       VecAdd(generatorPoints[k], d[k])]),
               maxDisplacement |-> MaxOf(n),
               engine |-> [eng EXCEPT !.forces = NonZero(forces),
                                      !.velocities = NonZero(velocity)]]
          : velocity \in {SeqOf(n, [k \in 1..n |->
                StepVelocity(eng, MapGet(eng.velocities, k, ZeroVec), forces[k])])}
        } : TRUE

\* The second loop of the optimized applyPhysicsStep on the accumulated
\* forces, and what it returns: [updatedPoints, maxDisplacement, engine].
integrateFast(eng, generatorPoints, forces) ==
    LET n == Len(generatorPoints)
    IN  CHOOSE out \in {
          LET d == [k \in 1..n |->
                      <<DivT(velocity[k][1] * DeltaTime, 1000),
                        DivT(velocity[k][2] * DeltaTime, 1000),
                        DivT(velocity[k][3] * DeltaTime, 1000)>>]
              RECURSIVE MaxOf(_)
              MaxOf(k) == IF k = 0 THEN 0 ELSE Max(MaxOf(k - 1), Norm(d[k]))
          IN  [updatedPoints   |-> SeqOf(n, [k \in 1..n |->
                                       VecAdd(generatorPoints[k], d[k])]),
               maxDisplacement |-> MaxOf(n),
               engine |-> [eng EXCEPT !.forces = NonZero(forces),
                                      !.velocities = NonZero(velocity),
                                      !.neighborCacheValid = FALSE]]
          : velocity \in {SeqOf(n, [k \in 1..n |->
                StepVelocity(eng, MapGet(eng.velocities, k, ZeroVec), forces[k])])}
        } : TRUE

\* applyPhysicsStep(generatorPoints, voronoiCells) of the optimized engine:
\* the record [updatedPoints, maxDisplacement, engine].  The arrays are
\* allocated anew (and the growth rates lost) unless they have the size of
\* generatorPoints.
applyPhysicsStepFast(eng, generatorPoints, voronoiCells) ==
    LET numPoints == Len(generatorPoints)
        eng1 == IF ~eng.allocated \/ eng.size # numPoints
                THEN initializeArrays(eng, numPoints) ELSE eng
        eng2 == IF eng1.neighborCacheValid THEN eng1
                ELSE rebuildNeighborCacheFast(eng1, voronoiCells)
    IN  CHOOSE out \in {
            CHOOSE res \in {integrateFast(eng3, generatorPoints, forces) :
                forces \in {accumulateForcesFast(eng3, generatorPoints)}} : TRUE
            : eng3 \in {updateActiveIndices(eng2)}} : TRUE

----------------------------------------------------------------------------
(* PhysicsGrowthSystem: pure parts.  A config value is the record          *)
(* [threshold, mode, growthPower, normalize, baseGrowthRate, forceStrength,*)
(*  damping, maxForce, equilibriumPrecision, maxPhysicsSteps, stepMode,    *)
(*  physicsStepsPerAnalysis].  A score entry is <<s>> for the number s and *)
(* <<>> for a missing (null / undefined) entry.                            *)

\* cellScores[i] || 0
ScoreOf(entry) == IF entry = <<>> THEN 0 ELSE entry[1]

\* the switch with the below-threshold branch of more_shrink_both copied from
\* more_grow_both
ModeDecisionCopied(cfg, score) ==
    LET above == score > cfg.threshold
        below == score < cfg.threshold
    IN  CASE cfg.mode = "more_grow_only" ->
                 IF above THEN [shouldGrow |-> TRUE, signalMagnitude |-> score - cfg.threshold]
                 ELSE [shouldGrow |-> FALSE, signalMagnitude |-> 0]
          [] cfg.mode = "more_grow_both" ->
                 IF above THEN [shouldGrow |-> TRUE, signalMagnitude |-> score - cfg.threshold]
                 ELSE IF below THEN [shouldGrow |-> FALSE, signalMagnitude |-> cfg.threshold - score]
                 ELSE [shouldGrow |-> FALSE, signalMagnitude |-> 0]
          [] cfg.mode = "more_shrink_only" ->
                 IF above THEN [shouldGrow |-> FALSE, signalMagnitude |-> score - cfg.threshold]
                 ELSE [shouldGrow |-> FALSE, signalMagnitude |-> 0]
          [] cfg.mode = "more_shrink_both" ->
                 IF above THEN [shouldGrow |-> FALSE, signalMagnitude |-> score - cfg.threshold]
                 ELSE IF below THEN [shouldGrow |-> FALSE, signalMagnitude |-> cfg.threshold - score]
                 ELSE [shouldGrow |-> FALSE, signalMagnitude |-> 0]
          [] OTHER -> [shouldGrow |-> FALSE, signalMagnitude |-> 0]

\* the switch on config.mode: [shouldGrow, signalMagnitude] of one score
ModeDecision(cfg, score) ==
    LET above == score > cfg.threshold
        below == score < cfg.threshold
    IN  CASE cfg.mode = "more_grow_only" ->
                 IF above THEN [shouldGrow |-> TRUE, signalMagnitude |-> score - cfg.threshold]
                 ELSE [shouldGrow |-> FALSE, signalMagnitude |-> 0]
          [] cfg.mode = "more_grow_both" ->
                 IF above THEN [shouldGrow |-> TRUE, signalMagnitude |-> score - cfg.threshold]
                 ELSE IF below THEN [shouldGrow |-> FALSE, signalMagnitude |-> cfg.threshold - score]
                 ELSE [shouldGrow |-> FALSE, signalMagnitude |-> 0]
          [] cfg.mode = "more_shrink_only" ->
                 IF above THEN [shouldGrow |-> FALSE, signalMagnitude |-> score - cfg.threshold]
                 ELSE [shouldGrow |-> FALSE, signalMagnitude |-> 0]
          [] cfg.mode = "more_shrink_both" ->
                 IF above THEN [shouldGrow |-> FALSE, signalMagnitude |-> score - cfg.threshold]
                 ELSE IF below THEN [shouldGrow |-> TRUE, signalMagnitude |-> cfg.threshold - score]
                 ELSE [shouldGrow |-> FALSE, signalMagnitude |-> 0]
          [] OTHER -> [shouldGrow |-> FALSE, signalMagnitude |-> 0]

\* calculateGrowthSignals that takes the largest signal without Math.abs
calculateGrowthSignalsSignedMax(cfg, cellScores) ==
    LET dec(i)    == ModeDecision(cfg, ScoreOf(cellScores[i]))
        active    == {i \in DOMAIN cellScores : dec(i).signalMagnitude > 0}
        rawSignal == MapOf(active, [i \in active |->
                         Pow(dec(i).signalMagnitude, cfg.growthPower)
                           * (IF dec(i).shouldGrow THEN 1 ELSE -1)])
        RECURSIVE MaxAbs(_)
        MaxAbs(S) == IF S = {} THEN 0
                     ELSE LET i == CHOOSE x \in S : TRUE
                          IN  Max(rawSignal[i], MaxAbs(S \ {i}))
        maxSignal == MaxAbs(active)
    IN  [growthSignals |->
             IF cfg.normalize /\ maxSignal > 0
             THEN MapOf(active, [i \in active |->
                      DivT(rawSignal[i] * cfg.baseGrowthRate, maxSignal)])
             ELSE MapOf(active, [i \in active |-> rawSignal[i] * cfg.baseGrowthRate]),
         activePoints    |-> Cardinality(active),
         growingPoints   |-> Cardinality({i \in active : dec(i).shouldGrow}),
         shrinkingPoints |-> Cardinality({i \in active : ~dec(i).shouldGrow})]

\* calculateGrowthSignals(cellScores): the record [growthSignals, activePoints,
\* growingPoints, shrinkingPoints]; growthSignals maps the active cells to
\* their growth rate in milli units
calculateGrowthSignals(cfg, cellScores) ==
    LET dec(i)    == ModeDecision(cfg, ScoreOf(cellScores[i]))
        active    == {i \in DOMAIN cellScores : dec(i).signalMagnitude > 0}
        rawSignal == MapOf(active, [i \in active |->
                         Pow(dec(i).signalMagnitude, cfg.growthPower)
                           * (IF dec(i).shouldGrow THEN 1 ELSE -1)])
        RECURSIVE MaxAbs(_)
        MaxAbs(S) == IF S = {} THEN 0
                     ELSE LET i == CHOOSE x \in S : TRUE
                          IN  Max(Abs(rawSignal[i]), MaxAbs(S \ {i}))
        maxSignal == MaxAbs(active)
    IN  [growthSignals |->
             IF cfg.normalize /\ maxSignal > 0
             THEN MapOf(active, [i \in active |->
                      DivT(rawSignal[i] * cfg.baseGrowthRate, maxSignal)])
             ELSE MapOf(active, [i \in active |-> rawSignal[i] * cfg.baseGrowthRate]),
         activePoints    |-> Cardinality(active),
         growingPoints   |-> Cardinality({i \in active : dec(i).shouldGrow}),
         shrinkingPoints |-> Cardinality({i \in active : ~dec(i).shouldGrow})]

RECURSIVE SetRates(_, _, _)
\* growthSignals.forEach((signal, cellIndex) => setGrowthRate(cellIndex, signal))
SetRates(eng, growthSignals, todo) ==
    IF todo = {} THEN eng
    ELSE LET i == CHOOSE x \in todo : TRUE
         IN  SetRates(setGrowthRate(eng, i, growthSignals[i]), growthSignals, todo \ {i})

\* an applyGrowthSignals that sets the rates over those already there
applyGrowthSignalsOver(eng, growthSignals) ==
    SetRates(eng, growthSignals, DOMAIN growthSignals)

\* applyGrowthSignals(growthSignals): the engine afterwards
applyGrowthSignals(eng, growthSignals) ==
    SetRates(clearGrowthRates(eng), growthSignals, DOMAIN growthSignals)

RECURSIVE CellOf(_, _, _)
\* the barycenters pushed onto cells[i] by the tetrahedra 1..t, in order
CellOf(computation, i, t) ==
    IF t = 0 THEN <<>>
    ELSE LET tet  == computation.tetrahedra[t]
             bary == IF t \in DOMAIN computation.barycenters
                     THEN computation.barycenters[t] ELSE <<>>
             hits == Cardinality({k \in DOMAIN tet : tet[k] = i})
         IN  CellOf(computation, i, t - 1)
               \o (IF bary = <<>> THEN <<>> ELSE SeqOf(hits, [k \in 1..hits |-> bary]))

buildVoronoiCells(points, computation) ==
    SeqOf(Len(points),
          [i \in 1..Len(points) |-> CellOf(computation, i, Len(computation.tetrahedra))])

\* LoopPass with a loop condition that forgets the step budget
LoopPassNoBudget(cfg, cells, st) ==
    IF st.left THEN st
    ELSE IF st.equilibriumReached THEN [st EXCEPT !.left = TRUE]
    ELSE CHOOSE out \in {
             [st EXCEPT !.currentPoints = result.updatedPoints,
                        !.physicsSteps = @ + 1,
                        !.equilibriumReached =
                            result.maxDisplacement < cfg.equilibriumPrecision,
                        !.maxDisplacement = Max(@, result.maxDisplacement),
                        !.totalDisplacement = @ + result.maxDisplacement,
                        !.engine = result.engine,
                        !.left = cfg.stepMode = "manual",
                        !.subSteps = Append(@, result.maxDisplacement),
                        !.caches = Append(@, result.engine.neighborCache)]
             : result \in {applyPhysicsStep(st.engine, st.currentPoints, cells)}
           } : TRUE

\* LoopPass without the break of manual mode
LoopPassNoBreak(cfg, cells, st) ==
    IF st.left THEN st
    ELSE IF ~(st.physicsSteps < cfg.maxPhysicsSteps /\ ~st.equilibriumReached)
    THEN [st EXCEPT !.left = TRUE]
    ELSE CHOOSE out \in {
             [st EXCEPT !.currentPoints = result.updatedPoints,
                        !.physicsSteps = @ + 1,
                        !.equilibriumReached =
                            result.maxDisplacement < cfg.equilibriumPrecision,
                        !.maxDisplacement = Max(@, result.maxDisplacement),
                        !.totalDisplacement = @ + result.maxDisplacement,
                        !.engine = result.engine,
                        !.subSteps = Append(@, result.maxDisplacement),
                        !.caches = Append(@, result.engine.neighborCache)]
             : result \in {applyPhysicsStep(st.engine, st.currentPoints, cells)}
           } : TRUE

\* LoopPass whose sub-steps after the first look the neighbours up again, in
\* cells that have lost their vertices
LoopPassNewCells(cfg, cells, st) ==
    IF st.left THEN st
    ELSE IF ~(st.physicsSteps < cfg.maxPhysicsSteps /\ ~st.equilibriumReached)
    THEN [st EXCEPT !.left = TRUE]
    ELSE CHOOSE out \in {
             [st EXCEPT !.currentPoints = result.updatedPoints,
                        !.physicsSteps = @ + 1,
                        !.equilibriumReached =
                            result.maxDisplacement < cfg.equilibriumPrecision,
                        !.maxDisplacement = Max(@, result.maxDisplacement),
                        !.totalDisplacement = @ + result.maxDisplacement,
                        !.engine = result.engine,
                        !.left = cfg.stepMode = "manual",
                        !.subSteps = Append(@, result.maxDisplacement),
                        !.caches = Append(@, result.engine.neighborCache)]
             : result \in {
                 IF st.physicsSteps = 0
                 THEN applyPhysicsStep(st.engine, st.currentPoints, cells)
                 ELSE applyPhysicsStep(st.engine, st.currentPoints,
                                       [i \in DOMAIN cells |-> <<>>])}
           } : TRUE

\* One evaluation of the while condition of balanceForces and, when it holds,
\* of the loop body.  st is the record of the loop's locals [currentPoints,
\* physicsSteps, equilibriumReached, maxDisplacement, totalDisplacement,
\* engine, left, subSteps, caches]: left is TRUE once the loop was left (condition
\* false, or the break of manual mode); subSteps lists the maxDisplacement of
\* every executed sub-step and caches the neighbour cache it left behind
\* (both kept for the properties, not by the code).
LoopPass(cfg, cells, st) ==
    IF st.left THEN st
    ELSE IF ~(st.physicsSteps < cfg.maxPhysicsSteps /\ ~st.equilibriumReached)
    THEN [st EXCEPT !.left = TRUE]
    ELSE CHOOSE out \in {
             [currentPoints      |-> result.updatedPoints,
              physicsSteps       |-> st.physicsSteps + 1,
              equilibriumReached |->
                  result.maxDisplacement < cfg.equilibriumPrecision,
              maxDisplacement    |->
                  Max(st.maxDisplacement, result.maxDisplacement),
              totalDisplacement  |->
                  st.totalDisplacement + result.maxDisplacement,
              engine             |-> result.engine,
              left               |-> cfg.stepMode = "manual",
              subSteps           |->
                  Append(st.subSteps, result.maxDisplacement),
              caches             |->
                  Append(st.caches, result.engine.neighborCache)]
             : result \in {applyPhysicsStep(st.engine, st.currentPoints, cells)}
           } : TRUE

RECURSIVE LoopPasses(_, _, _, _)
\* k passes of the loop, one after the other (split in halves to keep the
\* evaluation shallow)
LoopPasses(cfg, cells, st, k) ==
    IF k <= 0 \/ st.left THEN st
    ELSE IF k = 1 THEN LoopPass(cfg, cells, st)
    ELSE CHOOSE out \in {LoopPasses(cfg, cells, mid, k - (k \div 2)) :
                          mid \in {LoopPasses(cfg, cells, st, k \div 2)}} : TRUE

\* balanceForces(points, computation): the returned record, with the engine
\* afterwards in .engine and the points under .currentPoints.  The loop ends
\* within maxPhysicsSteps + 1 evaluations of its condition.  The loop works
\* on the deep copy points.map(p => [...p]); .input is what the caller's
\* array holds afterwards, which is only read.
balanceForces(cfg, eng, points, computation) ==
    CHOOSE out \in {
        [input |-> points] @@
        LoopPasses(cfg, cells, start, cfg.maxPhysicsSteps + 1) :
            cells \in {buildVoronoiCells(points, computation)},
            start \in {[currentPoints |-> points, physicsSteps |-> 0,
                        equilibriumReached |-> FALSE, maxDisplacement |-> 0,
                        totalDisplacement |-> 0, engine |-> eng, left |-> FALSE,
                        subSteps |-> <<>>, caches |-> <<>>]}
      } : TRUE

\* updateStats that reports equilibrium whenever the loop has ended
updateStatsAlwaysSettled(st, result) ==
    [st EXCEPT !.totalDisplacement = result.totalDisplacement,
               !.maxDisplacement = result.maxDisplacement,
               !.physicsSteps = result.physicsSteps,
               !.equilibriumReached = TRUE,
               !.averageDisplacement =
                   IF st.activePoints > 0
                   THEN DivT(result.totalDisplacement, st.activePoints) ELSE 0]

\* updateStats(result, growthSignals) on a stats record whose counts were set
\* by calculateGrowthSignals
updateStats(st, result) ==
    [st EXCEPT !.totalDisplacement = result.totalDisplacement,
               !.maxDisplacement = result.maxDisplacement,
               !.physicsSteps = result.physicsSteps,
               !.equilibriumReached = result.equilibriumReached,
               !.averageDisplacement =
                   IF st.activePoints > 0
                   THEN DivT(result.totalDisplacement, st.activePoints) ELSE 0]

\* counters that are not reset at the start of calculateGrowthSignals
WithCountsCarried(st, sig) ==
    [st EXCEPT !.activePoints = @ + sig.activePoints,
               !.growingPoints = @ + sig.growingPoints,
               !.shrinkingPoints = @ + sig.shrinkingPoints]

\* the three counters that calculateGrowthSignals resets and recounts
WithCounts(st, sig) ==
    [st EXCEPT !.activePoints = sig.activePoints,
               !.growingPoints = sig.growingPoints,
               !.shrinkingPoints = sig.shrinkingPoints]

\* this.stats of the constructor (averageDisplacement, absent until the first
\* updateStats, is carried as 0)
InitialStats ==
    [totalDisplacement |-> 0, maxDisplacement |-> 0, activePoints |-> 0,
     growingPoints |-> 0, shrinkingPoints |-> 0, physicsSteps |-> 0,
     equilibriumReached |-> FALSE, averageDisplacement |-> 0]

----------------------------------------------------------------------------
(* Bounds and inputs of the model.                                         *)

\* setTimeout is called at most this many times in a behaviour
MaxTimers == 3

\* the re-analysis callback is invoked at most this many times in a behaviour
MaxCalls == 3

\* config.physicsStepsPerAnalysis of the modelled system
StepsPerAnalysis == 2

\* two barycenters shared by the cells of a neighbouring pair
BaryUp == <<0, 500000, 0>>

BaryDown == <<0, -500000, 0>>

BaryFar == <<2000000, 500000, 0>>

BaryFarDown == <<2000000, -500000, 0>>

\* two generator points at distance d on the x axis whose cells share two vertices
PairScene(d) ==
    [points |-> << <<0, 0, 0>>, <<d, 0, 0>> >>,
     computation |-> [tetrahedra  |-> << <<1, 2>>, <<1, 2>> >>,
                      barycenters |-> <<BaryUp, BaryDown>>]]

\* three generator points in a row: 1-2 and 2-3 are neighbours, 1-3 are not
RowScene ==
    [points |-> << <<0, 0, 0>>, <<500000, 0, 0>>, <<1000000, 0, 0>> >>,
     computation |-> [tetrahedra  |-> << <<1, 2>>, <<1, 2>>, <<2, 3>>, <<2, 3>> >>,
                      barycenters |-> <<BaryUp, BaryDown, BaryFar, BaryFarDown>>]]

\* the scenes handed to applyGrowth
Scenes == {PairScene(1000000), PairScene(11000), RowScene}

\* analysisResults: null, an object without cellScores, or an object with them
NoAnalysis == [present |-> FALSE, hasScores |-> FALSE, cellScores |-> <<>>]

Analysis(cellScores) == [present |-> TRUE, hasScores |-> TRUE, cellScores |-> cellScores]

AnalysisInputs ==
    {NoAnalysis,
     [present |-> TRUE, hasScores |-> FALSE, cellScores |-> <<>>],
     Analysis(<< <<6>>, <<4>> >>),
     Analysis(<< <<6>>, <<5>> >>),
     Analysis(<< <<5>>, <<5>> >>),
     Analysis(<< <<4>>, <<>>, <<7>> >>)}

\* the step budget of the tight configurations
SmallBudget == 3

\* the arguments of updateConfig: the scenario settings; a tight precision
\* with a small budget; strong attraction between close points
ConfigUpdates ==
    {[equilibriumPrecision |-> 1000, maxForce |-> 200, maxPhysicsSteps |-> 100,
      mode |-> "more_grow_both", normalize |-> TRUE],
     [equilibriumPrecision |-> 100, maxForce |-> 500, maxPhysicsSteps |-> SmallBudget,
      mode |-> "more_grow_only", normalize |-> TRUE],
     [equilibriumPrecision |-> 100, maxForce |-> 5000, maxPhysicsSteps |-> 20,
      mode |-> "more_shrink_only", normalize |-> FALSE]}

\* new PhysicsGrowthSystem({forceStrength: 1, damping: 0.8, growthPower: 1,
\*   baseGrowthRate: 1, equilibriumPrecision: 0.001, physicsStepsPerAnalysis: 2})
InitialConfig ==
    [threshold |-> 5, mode |-> "more_grow_both", growthPower |-> 1,
     normalize |-> TRUE, baseGrowthRate |-> 1000, forceStrength |-> 1000,
     damping |-> 800, maxForce |-> 200, equilibriumPrecision |-> 1000,
     maxPhysicsSteps |-> 100, stepMode |-> "manual",
     physicsStepsPerAnalysis |-> StepsPerAnalysis]

----------------------------------------------------------------------------
(* State.                                                                  *)

VARIABLES
    config,                \* this.config
    physicsEngine,         \* this.physicsEngine
    stats,                 \* this.stats
    continuousMode,        \* this.continuousMode
    continuousIntervalId,  \* this.continuousIntervalId (0 is null)
    physicsStepCounter,    \* this.physicsStepCounter
    currentGrowthSignals,  \* this.currentGrowthSignals (<<>> is null, else <<Map>>)
    continuousCallback,    \* whether this.continuousCallback is a function
    continuousPoints,      \* this.continuousPoints and this.continuousComputation:
                           \*   which start call's arguments are stored (0: none)
    timers,                \* the pending setTimeout timers: records [id, stale]
    outstanding,           \* the callback invocations that have not signalled
                           \*   completion: records [id, skip, stale, performed]
    nextTimerId,           \* the id the next setTimeout returns
    calls,                 \* how many times the callback has been invoked
    lastEvent,             \* what the last continuous-mode operation did
    lastCall,              \* the last cycle call: its arguments and results
    stepsSinceFresh,       \* physics steps since the last request for fresh scores
    cooperative,           \* every completion so far followed that callback's
                           \*   performContinuousStep
    optimizedEngine,       \* an OptimizedPhysicsExpansion of its own
    optimizedSteps         \* how many times its applyPhysicsStep was called

progVars == <<config, physicsEngine, stats, continuousMode, continuousIntervalId,
              physicsStepCounter, currentGrowthSignals, continuousCallback,
              continuousPoints, timers, nextTimerId>>

vars == <<config, physicsEngine, stats, continuousMode, continuousIntervalId,
          physicsStepCounter, currentGrowthSignals, continuousCallback,
          continuousPoints, timers, outstanding, nextTimerId, calls, lastEvent, lastCall, stepsSinceFresh,
          cooperative, optimizedEngine, optimizedSteps>>

optimizedVars == <<optimizedEngine, optimizedSteps>>

NoEvent == [op |-> "none", after |-> "none", stale |-> FALSE, invoked |-> FALSE,
            skipFlag |-> FALSE, scheduled |-> FALSE, threw |-> FALSE, gap |-> -1,
            fresh |-> FALSE, enteredMoving |-> FALSE,
            performThrew |-> FALSE, noScores |-> FALSE]

NoCall == [op |-> "none", skipped |-> TRUE, points |-> <<>>, returned |-> <<>>,
           subSteps |-> <<>>, left |-> FALSE, fresh |-> FALSE,
           velocitiesBefore |-> EmptyMap, enteredMoving |-> FALSE,
           cellScores |-> <<>>, pointsAfter |-> <<>>]

Init ==
    /\ config = InitialConfig
    /\ physicsEngine = NewEngine(InitialConfig.forceStrength, InitialConfig.damping,
                                 InitialConfig.maxForce)
    /\ stats = InitialStats
    /\ continuousMode = FALSE
    /\ continuousIntervalId = 0
    /\ physicsStepCounter = 0
    /\ currentGrowthSignals = <<>>
    /\ continuousCallback = FALSE
    /\ continuousPoints = 0
    /\ timers = {}
    /\ outstanding = {}
    /\ nextTimerId = 1
    /\ calls = 0
    /\ lastEvent = NoEvent
    /\ lastCall = NoCall
    /\ stepsSinceFresh = -1
    /\ cooperative = TRUE
    /\ optimizedEngine = NewOptimizedEngine
    /\ optimizedSteps = 0

----------------------------------------------------------------------------
(* The cycle entry points: applyGrowth behind performManualStep,           *)
(* performAutoStep and performEquilibriumStep, and updateConfig.           *)

\* applyGrowth that stops all motion before it looks at the analysis results
applyGrowthResetFirst(cfg, eng, st, points, computation, analysisResults) ==
    IF ~analysisResults.present \/ ~analysisResults.hasScores
    THEN [skipped |-> TRUE, engine |-> EngineReset(eng), stats |-> st,
          returned |-> points, subSteps |-> <<>>, left |-> FALSE,
          velocitiesBefore |-> eng.velocities, input |-> points,
          caches |-> <<>>]
    ELSE LET reset  == EngineReset(eng)
             sig    == calculateGrowthSignals(cfg, analysisResults.cellScores)
             loaded == applyGrowthSignals(reset, sig.growthSignals)
         IN  CHOOSE out \in {
               [skipped |-> FALSE, engine |-> result.engine,
                stats |-> updateStats(WithCounts(st, sig), result),
                returned |-> result.currentPoints, subSteps |-> result.subSteps,
                left |-> result.left, velocitiesBefore |-> loaded.velocities,
                input |-> result.input, caches |-> result.caches]
               : result \in {balanceForces(cfg, loaded, points, computation)}
             } : TRUE

\* applyGrowth(points, computation, analysisResults) under config cfg: the
\* record [skipped, engine, stats, returned, subSteps, left, velocitiesBefore,
\* input, caches], input being the caller's points array afterwards
applyGrowth(cfg, eng, st, points, computation, analysisResults) ==
    IF ~analysisResults.present \/ ~analysisResults.hasScores
    THEN [skipped |-> TRUE, engine |-> eng, stats |-> st, returned |-> points,
          subSteps |-> <<>>, left |-> FALSE, velocitiesBefore |-> eng.velocities,
          input |-> points, caches |-> <<>>]
    ELSE LET reset  == EngineReset(eng)
             sig    == calculateGrowthSignals(cfg, analysisResults.cellScores)
             loaded == applyGrowthSignals(reset, sig.growthSignals)
         IN  CHOOSE out \in {
               [skipped |-> FALSE, engine |-> result.engine,
                stats |-> updateStats(WithCounts(st, sig), result),
                returned |-> result.currentPoints, subSteps |-> result.subSteps,
                left |-> result.left, velocitiesBefore |-> loaded.velocities,
                input |-> result.input, caches |-> result.caches]
               : result \in {balanceForces(cfg, loaded, points, computation)}
             } : TRUE

\* Object.assign(this.config, newConfig)
AssignConfig(cfg, newConfig) == newConfig @@ cfg

\* the engine after updateConfig copied the physics parameters it was given
SyncEngine(eng, newConfig) ==
    [eng EXCEPT
        !.forceStrength = IF "forceStrength" \in DOMAIN newConfig
                          THEN newConfig.forceStrength ELSE @,
        !.damping = IF "damping" \in DOMAIN newConfig THEN newConfig.damping ELSE @,
        !.maxForce = IF "maxForce" \in DOMAIN newConfig THEN newConfig.maxForce ELSE @]

continuousVars == <<continuousMode, continuousIntervalId, physicsStepCounter,
                    currentGrowthSignals, continuousCallback,
                    continuousPoints, timers, outstanding, nextTimerId, calls, lastEvent, stepsSinceFresh, cooperative>>

\* config.stepMode = stepMode; return applyGrowth(...)
StepCall(op, stepMode, scene, analysisResults) ==
    LET cfg == [config EXCEPT !.stepMode = stepMode]
    IN  \E r \in {applyGrowth(cfg, physicsEngine, stats, scene.points,
                              scene.computation, analysisResults)} :
        /\ config' = cfg
        /\ physicsEngine' = r.engine
        /\ stats' = r.stats
        /\ lastCall' = [op |-> op, skipped |-> r.skipped, points |-> scene.points,
                        returned |-> r.returned, subSteps |-> r.subSteps,
                        left |-> r.left, fresh |-> ~r.skipped,
                        velocitiesBefore |-> r.velocitiesBefore,
                        enteredMoving |-> Moving(physicsEngine),
                        cellScores |-> analysisResults.cellScores,
                        pointsAfter |-> r.input,
                        computation |-> scene.computation,
                        caches |-> r.caches]
        /\ UNCHANGED <<continuousVars, optimizedVars>>

performManualStep ==
    \E scene \in Scenes, a \in AnalysisInputs :
        StepCall("performManualStep", "manual", scene, a)

performAutoStep ==
    \E scene \in Scenes, a \in AnalysisInputs :
        StepCall("performAutoStep", "auto", scene, a)

performEquilibriumStep ==
    \E scene \in Scenes, a \in AnalysisInputs :
        StepCall("performEquilibriumStep", "equilibrium", scene, a)

\* updateConfig(newConfig)
updateConfigWith(newConfig) ==
    /\ config' = AssignConfig(config, newConfig)
    /\ physicsEngine' = SyncEngine(physicsEngine, newConfig)
    /\ lastCall' = [NoCall EXCEPT !.op = "updateConfig"]
    /\ UNCHANGED <<stats, continuousVars, optimizedVars>>

updateConfig == \E newConfig \in ConfigUpdates : updateConfigWith(newConfig)

NextCycle ==
    \/ performManualStep
    \/ performAutoStep
    \/ performEquilibriumStep
    \/ updateConfig

SpecCycle == Init /\ [][NextCycle]_vars

----------------------------------------------------------------------------
(* calculateGrowthSignals called on its own, under the settings that       *)
(* updateConfig can install.                                               *)

Modes == {"more_grow_only", "more_grow_both", "more_shrink_only", "more_shrink_both"}

\* the growth settings handed to updateConfig
SignalConfigs ==
    [threshold : {0, 5, 10}, mode : Modes, growthPower : {1, 2, 3},
     normalize : BOOLEAN, baseGrowthRate : {1000, 5000}]

\* the cellScores handed to calculateGrowthSignals
SignalScores ==
    {<< >>,
     << <<15>> >>,
     << <<15>>, <<5>> >>,
     << <<12>>, <<2>>, <<14>> >>,
     << <<10>>, <<10>> >>,
     << <<5>>, <<5>>, <<5>> >>,
     << <<4>>, <<>>, <<7>> >>,
     << <<0>>, <<6>>, <<11>> >>}

updateSignalConfig == \E newConfig \in SignalConfigs : updateConfigWith(newConfig)

\* calculateGrowthSignals(cellScores): the counters of this.stats are recounted
CallCalculateGrowthSignals ==
    \E cellScores \in SignalScores :
        \E sig \in {calculateGrowthSignals(config, cellScores)} :
            /\ stats' = WithCounts(stats, sig)
            /\ lastCall' = [op |-> "calculateGrowthSignals",
                            cellScores |-> cellScores,
                            growthSignals |-> sig.growthSignals,
                            statsBefore |-> stats] @@ NoCall
            /\ UNCHANGED <<config, physicsEngine, continuousVars, optimizedVars>>

NextSignals ==
    \/ updateSignalConfig
    \/ CallCalculateGrowthSignals

SpecSignals == Init /\ [][NextSignals]_vars

----------------------------------------------------------------------------
(* The neighbour caches of the two engines on a range of tessellations,    *)
(* and the optimized engine's own operations.                              *)

\* applyPhysicsStep of the optimized engine is called at most this many times
MaxOptimizedSteps == 3

\* Vertex positions.  VertexNear has the hash of VertexP; VertexOver is
\* within the tolerance of VertexP but has the next hash.
VertexP == <<0, 0, 0>>

VertexNear == <<40, 0, 0>>

VertexOver == <<60, 0, 0>>

VertexQ == <<0, 500000, 0>>

VertexR == <<500000, 0, 0>>

\* cell polygons: empty, a repeated vertex, edges and faces
Polygons ==
    {<<>>, <<VertexP, VertexP>>, <<VertexP, VertexQ>>,
     <<VertexP, VertexNear>>, <<VertexOver, VertexQ>>,
     <<VertexP, VertexQ, VertexR>>, <<VertexQ, VertexP, VertexP>>}

\* voronoiCells: every two polygons, and some tessellations of three cells
Tessellations ==
    {<<a, b>> : a, b \in Polygons}
      \cup {<<a, b, <<VertexP, VertexQ>> >> :
               a, b \in {<<VertexP, VertexP>>, <<VertexR>>,
                         <<VertexQ, VertexP, VertexR>>}}

\* generatorPoints for n cells: n points in a row on the x axis
PointsInRow(n) == SeqOf(n, [k \in 1..n |-> <<(k - 1) * 500000, 0, 0>>])

\* physicsEngine.rebuildNeighborCache(voronoiCells)
CallRebuildNeighborCache ==
    \E voronoiCells \in Tessellations :
        /\ physicsEngine' =
               [physicsEngine EXCEPT
                   !.neighborCache = rebuildNeighborCache(voronoiCells),
                   !.neighborCacheValid = TRUE]
        /\ lastCall' = [op |-> "rebuildNeighborCache",
                        cells |-> voronoiCells] @@ NoCall
        /\ UNCHANGED <<config, stats, continuousVars, optimizedVars>>

\* optimizedEngine.applyPhysicsStep(generatorPoints, voronoiCells)
CallApplyPhysicsStepFast(generatorPoints, voronoiCells) ==
    /\ optimizedSteps < MaxOptimizedSteps
    /\ \E r \in {applyPhysicsStepFast(optimizedEngine, generatorPoints,
                                      voronoiCells)} :
          /\ optimizedEngine' = r.engine
          /\ lastCall' = [op |-> "applyPhysicsStepFast",
                          points |-> generatorPoints,
                          cells |-> voronoiCells,
                          returned |-> r.updatedPoints,
                          subSteps |-> <<r.maxDisplacement>>,
                          velocitiesBefore |->
                              IF optimizedEngine.size = Len(generatorPoints)
                              THEN optimizedEngine.velocities ELSE EmptyMap,
                          sizeBefore |-> optimizedEngine.size,
                          ratesBefore |-> optimizedEngine.growthRates] @@ NoCall
    /\ optimizedSteps' = optimizedSteps + 1
    /\ UNCHANGED <<config, physicsEngine, stats, continuousVars>>

applyPhysicsStepOnTessellation ==
    \E voronoiCells \in Tessellations :
        CallApplyPhysicsStepFast(PointsInRow(Len(voronoiCells)), voronoiCells)

NextNeighbors ==
    \/ CallRebuildNeighborCache
    \/ applyPhysicsStepOnTessellation

SpecNeighbors == Init /\ [][NextNeighbors]_vars

----------------------------------------------------------------------------
(* The forces of both engines on a pair of neighbouring cells.             *)

\* the pair of cells of the force checks, one unit apart
ForceScene == PairScene(1000000)

\* scores that make one cell of the pair active, or both (with opposite
\* rates, and with rates of the same sign)
PairAnalyses ==
    {Analysis(<< <<6>>, <<5>> >>), Analysis(<< <<5>>, <<4>> >>),
     Analysis(<< <<6>>, <<4>> >>), Analysis(<< <<7>>, <<6>> >>)}

\* the growth rates handed to the optimized engine
FastRates == {0, 500, -500}

performManualStepOnPair ==
    \E a \in PairAnalyses : StepCall("performManualStep", "manual", ForceScene, a)

\* optimizedEngine.setGrowthRate(cellIndex, rate)
SetGrowthRateFastAt(cellIndex, rate) ==
    /\ optimizedEngine' = setGrowthRateFast(optimizedEngine, cellIndex, rate)
    /\ lastCall' = [op |-> "setGrowthRateFast", cellIndex |-> cellIndex,
                    rate |-> rate, sizeBefore |-> optimizedEngine.size] @@ NoCall
    /\ UNCHANGED <<config, physicsEngine, stats, continuousVars, optimizedSteps>>

CallSetGrowthRateFast ==
    \E cellIndex \in 1..2, rate \in FastRates :
        SetGrowthRateFastAt(cellIndex, rate)

\* optimizedEngine.clearGrowthRates()
CallClearGrowthRatesFast ==
    /\ optimizedEngine' = clearGrowthRatesFast(optimizedEngine)
    /\ lastCall' = [op |-> "clearGrowthRatesFast"] @@ NoCall
    /\ UNCHANGED <<config, physicsEngine, stats, continuousVars, optimizedSteps>>

\* optimizedEngine.reset()
CallResetFast ==
    /\ optimizedEngine' = resetFast(optimizedEngine)
    /\ lastCall' = [op |-> "resetFast"] @@ NoCall
    /\ UNCHANGED <<config, physicsEngine, stats, continuousVars, optimizedSteps>>

applyPhysicsStepOnPair ==
    CallApplyPhysicsStepFast(ForceScene.points,
                             buildVoronoiCells(ForceScene.points,
                                               ForceScene.computation))

NextForces ==
    \/ performManualStepOnPair
    \/ CallSetGrowthRateFast
    \/ CallClearGrowthRatesFast
    \/ CallResetFast
    \/ applyPhysicsStepOnPair

SpecForces == Init /\ [][NextForces]_vars

----------------------------------------------------------------------------
(* The storage of the optimized engine: growth rates set at indices inside *)
(* and behind the arrays, between physics steps on the pair.               *)

\* cell indices handed to setGrowthRate: inside the arrays of a pair, at
\* their end and behind it
StorageIndices == {1, 3, 5}

setGrowthRateAnywhere ==
    \E cellIndex \in StorageIndices, rate \in FastRates :
        SetGrowthRateFastAt(cellIndex, rate)

NextStorage ==
    \/ setGrowthRateAnywhere
    \/ CallClearGrowthRatesFast
    \/ applyPhysicsStepOnPair

SpecStorage == Init /\ [][NextStorage]_vars

----------------------------------------------------------------------------
(* The neighbour caches across physics steps on scenes whose cells are     *)
(* neighbours and on scenes whose cells are not.                           *)

\* two generator points whose cells have a single vertex in common
ApartScene ==
    [points |-> << <<0, 0, 0>>, <<2000000, 0, 0>> >>,
     computation |-> [tetrahedra  |-> << <<1, 2>>, <<1>> >>,
                      barycenters |-> <<BaryUp, BaryDown>>]]

CacheScenes == {ForceScene, ApartScene}

\* scores that make the first cell active, or none
CacheAnalyses == {Analysis(<< <<6>>, <<5>> >>), Analysis(<< <<5>>, <<5>> >>)}

performManualStepOnScene ==
    \E scene \in CacheScenes, a \in CacheAnalyses :
        StepCall("performManualStep", "manual", scene, a)

applyPhysicsStepOnScene ==
    \E scene \in CacheScenes :
        CallApplyPhysicsStepFast(scene.points,
                                 buildVoronoiCells(scene.points, scene.computation))

NextCache ==
    \/ performManualStepOnScene
    \/ CallSetGrowthRateFast
    \/ CallResetFast
    \/ applyPhysicsStepOnScene

SpecCache == Init /\ [][NextCache]_vars

----------------------------------------------------------------------------
(* The growth rates of the engine across cycles and across calls of        *)
(* applyGrowthSignals.                                                     *)

\* the rates a signal Map holds for a cell
SignalRates == {1000, -500}

\* growthSignals: Maps from some of the cells 1..2 to a rate
SignalMaps ==
    UNION {[cellSet -> SignalRates] : cellSet \in SUBSET {1, 2}}

\* growthSystem.applyGrowthSignals(growthSignals)
CallApplyGrowthSignals ==
    \E growthSignals \in SignalMaps :
        /\ physicsEngine' = applyGrowthSignals(physicsEngine, growthSignals)
        /\ lastCall' = [op |-> "applyGrowthSignals",
                        growthSignals |-> growthSignals,
                        ratesBefore |-> physicsEngine.growthRates] @@ NoCall
        /\ UNCHANGED <<config, stats, continuousVars, optimizedVars>>

NextRates ==
    \/ CallApplyGrowthSignals
    \/ performManualStepOnPair

SpecRates == Init /\ [][NextRates]_vars

----------------------------------------------------------------------------
(* Which cells drive forces: cycles on the row of three cells under base   *)
(* growth rates at and above the activity cut-off.  A rate below the       *)
(* cut-off 0.001 is below the milli grid and carried as 0: the engine      *)
(* computes no force from it either way.                                   *)

\* baseGrowthRate 0.001 (the default of the documented range), 0.002 and 1
ActivityConfigs ==
    [baseGrowthRate : {1, 2, 1000}, normalize : BOOLEAN]

\* scores of the three cells of the row; the middle cell is at the threshold
ActivityAnalyses ==
    {Analysis(<< <<7>>, <<5>>, <<6>> >>), Analysis(<< <<6>>, <<5>>, <<5>> >>),
     Analysis(<< <<5>>, <<5>>, <<4>> >>), Analysis(<< <<5>>, <<5>>, <<5>> >>)}

updateActivityConfig ==
    \E newConfig \in ActivityConfigs : updateConfigWith(newConfig)

performManualStepOnRow ==
    \E a \in ActivityAnalyses :
        StepCall("performManualStep", "manual", RowScene, a)

NextActivity ==
    \/ updateActivityConfig
    \/ performManualStepOnRow

SpecActivity == Init /\ [][NextActivity]_vars

----------------------------------------------------------------------------
(* The two engines side by side: a new engine of each class, the same      *)
(* growth rates set on both, and one applyPhysicsStep of each on the same  *)
(* points and cells.                                                       *)

\* the rates set on a cell
EngineRates == {500, -500, 1000, 2000}

\* the scenes both engines step on
EngineScenes == {ForceScene, PairScene(11000), RowScene}

RECURSIVE SetRatesFast(_, _, _)
\* setGrowthRate(cellIndex, rates[cellIndex]) of the optimized engine for
\* every cell in todo
SetRatesFast(eng, rates, todo) ==
    IF todo = {} THEN eng
    ELSE LET i == CHOOSE x \in todo : TRUE
         IN  SetRatesFast(setGrowthRateFast(eng, i, rates[i]), rates, todo \ {i})

\* new PhysicsExpansion() and new OptimizedPhysicsExpansion() with
\* initializeArrays(numPoints); setGrowthRate(cell, rate) on both for every
\* entry of rates; applyPhysicsStep(points, cells) on both
StepBothEngines ==
    \E scene \in EngineScenes :
      \E cellSet \in SUBSET (1..Len(scene.points)) :
        \E rates \in [cellSet -> EngineRates] :
          \E cells \in {buildVoronoiCells(scene.points, scene.computation)} :
            \E mapResult \in {applyPhysicsStep(
                                 SetRates(NewEngine(500, 800, 500), rates, cellSet),
                                 scene.points, cells)},
               fastResult \in {applyPhysicsStepFast(
                                 SetRatesFast(initializeArrays(NewOptimizedEngine,
                                                               Len(scene.points)),
                                              rates, cellSet),
                                 scene.points, cells)} :
              /\ physicsEngine' = mapResult.engine
              /\ optimizedEngine' = fastResult.engine
              /\ optimizedSteps' = 1
              /\ lastCall' = [op |-> "stepBothEngines",
                              points |-> scene.points,
                              rates |-> rates,
                              returned |-> mapResult.updatedPoints,
                              subSteps |-> <<mapResult.maxDisplacement>>,
                              returnedFast |-> fastResult.updatedPoints,
                              maxDisplacementFast |-> fastResult.maxDisplacement]
                             @@ NoCall
              /\ UNCHANGED <<config, stats, continuousVars>>

NextEngines == StepBothEngines

SpecEngines == Init /\ [][NextEngines]_vars

----------------------------------------------------------------------------
(* The pairwise force law of both engines: calculateForce and              *)
(* calculateForceFast on a range of points and growth rates, under the     *)
(* physics parameters that updateConfig sets, and a sub-step on points     *)
(* that are closer than minDistance.                                       *)

\* the point the forces start from
ForceOrigin == <<0, 0, 0>>

\* target points: the origin itself, a point closer than minDistance, one at
\* minDistance, points at growing distances on the x axis, one on the other
\* side and one off the axis
ForceTargets ==
    {ForceOrigin, <<5000, 0, 0>>, <<10000, 0, 0>>, <<500000, 0, 0>>,
     <<1000000, 0, 0>>, <<2000000, 0, 0>>, <<3000000, 0, 0>>,
     <<-2000000, 0, 0>>, <<3000000, 4000000, 0>>}

\* growth rates handed to the force law
ForceRates == {1000, -500, 0}

\* pairs of generator points that are closer than minDistance, or coincide
CloseScenes == {PairScene(5000), PairScene(0)}

\* the arguments and the result of a call of the force law
ForceCall(eng, toPoint, growthRate, force) ==
    [toPoint |-> toPoint, growthRate |-> growthRate, force |-> force,
     maxForce |-> eng.maxForce, forceStrength |-> eng.forceStrength]

\* physicsEngine.calculateForce(ForceOrigin, toPoint, growthRate); the call
\* before it is kept for comparison when it had the same growth rate
CallCalculateForce ==
    \E toPoint \in ForceTargets, growthRate \in ForceRates :
        /\ lastCall' =
               [op |-> "calculateForce",
                call |-> ForceCall(physicsEngine, toPoint, growthRate,
                                   calculateForce(physicsEngine, ForceOrigin,
                                                  toPoint, growthRate)),
                previous |-> IF /\ lastCall.op = "calculateForce"
                                /\ lastCall.call.growthRate = growthRate
                             THEN <<lastCall.call>> ELSE <<>>] @@ NoCall
        /\ UNCHANGED <<config, physicsEngine, stats, continuousVars, optimizedVars>>

\* optimizedEngine.calculateForceFast(ForceOrigin, toPoint, growthRate,
\* forceBuffer, 0): force is what the buffer holds afterwards
CallCalculateForceFast ==
    \E toPoint \in ForceTargets, growthRate \in ForceRates :
        /\ lastCall' =
               [op |-> "calculateForceFast",
                call |-> ForceCall(optimizedEngine, toPoint, growthRate,
                                   calculateForceFast(optimizedEngine, ForceOrigin,
                                                      toPoint, growthRate)),
                previous |-> <<>>] @@ NoCall
        /\ UNCHANGED <<config, physicsEngine, stats, continuousVars, optimizedVars>>

performManualStepOnClosePair ==
    \E scene \in CloseScenes, a \in PairAnalyses :
        StepCall("performManualStep", "manual", scene, a)

NextForceLaw ==
    \/ CallCalculateForce
    \/ CallCalculateForceFast
    \/ performManualStepOnClosePair
    \/ updateConfig

SpecForceLaw == Init /\ [][NextForceLaw]_vars

----------------------------------------------------------------------------
(* Continuous mode.  The operators work on a record cs of the fields the   *)
(* continuous loop reads and writes, with the pending timers, the          *)
(* outstanding callback invocations and what the operation did so far      *)
(* (invoked, skipFlag, scheduled, threw).                                  *)

\* what the re-analysis callback does before it returns: keep the completion
\* function for later, call it, raise, or call it and then raise
Behaviours == {"defer", "signal", "throw", "signalThrow"}

\* the analysisResults a callback hands to performContinuousStep
ContinuousAnalyses ==
    {NoAnalysis, Analysis(<< <<6>>, <<5>> >>), Analysis(<< <<4>>, <<5>> >>),
     [present |-> TRUE, hasScores |-> FALSE, cellScores |-> <<>>]}

\* the scene whose points and computation the callback hands over
ContinuousScene == PairScene(1000000)

\* the points and computation handed to startContinuousMode: two different
\* pairs of objects
StartArguments == {1, 2}

\* the record cs of the current state, before the operation did anything
CS ==
    [continuousMode |-> continuousMode,
     continuousIntervalId |-> continuousIntervalId,
     physicsStepCounter |-> physicsStepCounter,
     currentGrowthSignals |-> currentGrowthSignals,
     continuousCallback |-> continuousCallback,
     continuousPoints |-> continuousPoints,
     timers |-> timers, outstanding |-> outstanding,
     nextTimerId |-> nextTimerId, calls |-> calls,
     invoked |-> FALSE, skipFlag |-> FALSE, scheduled |-> FALSE, threw |-> FALSE]

\* scheduleContinuousStep(): setTimeout returns the next id
scheduleContinuousStep(cs) ==
    IF ~cs.continuousMode THEN cs
    ELSE [cs EXCEPT !.continuousIntervalId = cs.nextTimerId,
                    !.timers = @ \cup {[id |-> cs.nextTimerId, stale |-> FALSE]},
                    !.nextTimerId = @ + 1,
                    !.scheduled = TRUE]

\* a stop that flips the mode flag instead of clearing it
stopContinuousModeToggle(cs) ==
    [cs EXCEPT !.timers = {[t EXCEPT !.stale = TRUE] :
                              t \in {u \in @ : u.id # cs.continuousIntervalId}},
               !.outstanding = {[cb EXCEPT !.stale = TRUE] : cb \in @},
               !.continuousIntervalId = 0,
               !.continuousMode = ~cs.continuousMode,
               !.physicsStepCounter = 0,
               !.currentGrowthSignals = <<>>]

\* stopContinuousMode(): clearTimeout removes the timer that
\* continuousIntervalId names, if it is pending.  Every continuation that is
\* left (timer or outstanding callback) is marked stale: it was created before
\* this stop.
stopContinuousMode(cs) ==
    [cs EXCEPT !.timers = {[t EXCEPT !.stale = TRUE] :
                              t \in {u \in @ : u.id # cs.continuousIntervalId}},
               !.outstanding = {[cb EXCEPT !.stale = TRUE] : cb \in @},
               !.continuousIntervalId = 0,
               !.continuousMode = FALSE,
               !.physicsStepCounter = 0,
               !.currentGrowthSignals = <<>>]

\* the analysis branch's completion function without the scheduling
analysisDoneOnly(cs) == [cs EXCEPT !.physicsStepCounter = 0]

\* the completion function of the analysis branch of continuousStep
analysisDone(cs) == scheduleContinuousStep([cs EXCEPT !.physicsStepCounter = 0])

\* the completion function of the branch that skips the analysis
skipDone(cs) == scheduleContinuousStep(cs)

\* continuousStep() with a callback that behaves as beh before it returns
continuousStep(cs, beh) ==
    IF ~cs.continuousMode THEN cs
    ELSE IF ~cs.continuousCallback THEN scheduleContinuousStep(cs)
    ELSE LET skip    == ~(cs.physicsStepCounter = 0 \/ cs.currentGrowthSignals = <<>>)
             invoked == [cs EXCEPT !.calls = @ + 1, !.invoked = TRUE,
                                   !.skipFlag = skip]
             done    == IF skip THEN skipDone(invoked) ELSE analysisDone(invoked)
         IN  CASE beh = "defer" ->
                      [invoked EXCEPT !.outstanding = @ \cup
                          {[id |-> invoked.calls, skip |-> skip, stale |-> FALSE,
                            performed |-> FALSE]}]
               [] beh = "signal" -> done
               [] beh = "throw" -> stopContinuousMode([invoked EXCEPT !.threw = TRUE])
               [] OTHER -> stopContinuousMode([done EXCEPT !.threw = TRUE])

\* a startContinuousMode without the test of this.continuousMode
startContinuousModeAgain(cs, points, hasCallback, beh) ==
    continuousStep([cs EXCEPT !.continuousMode = TRUE,
                              !.continuousPoints = points,
                              !.continuousCallback = hasCallback], beh)

\* startContinuousMode(points, computation, analysisResults, updateCallback)
startContinuousMode(cs, points, hasCallback, beh) ==
    IF cs.continuousMode THEN cs
    ELSE continuousStep([cs EXCEPT !.continuousMode = TRUE,
                                   !.continuousPoints = points,
                                   !.continuousCallback = hasCallback], beh)

\* performContinuousStep(points, computation, analysisResults, skipAnalysis):
\* the record [physicsStepCounter, currentGrowthSignals, engine, stats, ran],
\* ran telling whether balanceForces was run
performContinuousStep(cfg, eng, st, cs, scene, analysisResults, skipAnalysis) ==
    IF ~cs.continuousMode
    THEN [physicsStepCounter |-> cs.physicsStepCounter,
          currentGrowthSignals |-> cs.currentGrowthSignals,
          engine |-> eng, stats |-> st, ran |-> FALSE, fresh |-> FALSE,
          threw |-> FALSE]
    ELSE IF ~skipAnalysis /\ analysisResults.present /\ ~analysisResults.hasScores
    THEN \* calculateGrowthSignals(undefined) zeroes the three counters and
         \* throws a TypeError on cellScores.length
         [physicsStepCounter |-> cs.physicsStepCounter,
          currentGrowthSignals |-> cs.currentGrowthSignals,
          engine |-> eng,
          stats |-> WithCounts(st, [activePoints |-> 0, growingPoints |-> 0,
                                    shrinkingPoints |-> 0]),
          ran |-> FALSE, fresh |-> FALSE, threw |-> TRUE]
    ELSE LET fresh   == ~skipAnalysis /\ analysisResults.present
             sig     == calculateGrowthSignals(cfg, analysisResults.cellScores)
             signals == IF fresh THEN <<sig.growthSignals>>
                        ELSE cs.currentGrowthSignals
             eng1    == IF fresh THEN applyGrowthSignals(eng, sig.growthSignals)
                        ELSE eng
             st1     == IF fresh THEN WithCounts(st, sig) ELSE st
             counter == IF fresh THEN 0 ELSE cs.physicsStepCounter
         IN  IF signals = <<>>
             THEN [physicsStepCounter |-> counter, currentGrowthSignals |-> signals,
                   engine |-> eng1, stats |-> st1, ran |-> FALSE, fresh |-> fresh,
                   threw |-> FALSE]
             ELSE CHOOSE out \in {
                    [physicsStepCounter |->
                         IF counter + 1 >= cfg.physicsStepsPerAnalysis
                         THEN 0 ELSE counter + 1,
                     currentGrowthSignals |-> signals,
                     engine |-> result.engine,
                     stats |-> updateStats(st1, result), ran |-> TRUE,
                     fresh |-> fresh, threw |-> FALSE]
                    : result \in {balanceForces(cfg, eng1, scene.points,
                                                scene.computation)}
                  } : TRUE

\* the continuous-loop fields take the values of r; lastEvent records the
\* operation op, whether the continuation that ran was stale, and what it did
Install(r, op, stale) ==
    /\ continuousMode' = r.continuousMode
    /\ continuousIntervalId' = r.continuousIntervalId
    /\ physicsStepCounter' = r.physicsStepCounter
    /\ currentGrowthSignals' = r.currentGrowthSignals
    /\ continuousCallback' = r.continuousCallback
    /\ continuousPoints' = r.continuousPoints
    /\ timers' = r.timers
    /\ outstanding' = r.outstanding
    /\ nextTimerId' = r.nextTimerId
    /\ calls' = r.calls
    /\ lastEvent' = [op |-> op, after |-> lastEvent.op, stale |-> stale,
                     invoked |-> r.invoked, skipFlag |-> r.skipFlag,
                     scheduled |-> r.scheduled, threw |-> r.threw,
                     gap |-> IF r.invoked /\ ~r.skipFlag THEN stepsSinceFresh ELSE -1,
                     fresh |-> FALSE, enteredMoving |-> FALSE,
            performThrew |-> FALSE, noScores |-> FALSE]
    /\ stepsSinceFresh' = IF op = "stop" \/ r.threw THEN -1
                          ELSE IF r.invoked /\ ~r.skipFlag THEN 0
                          ELSE stepsSinceFresh

\* room for one more callback invocation and one more timer
Room == calls < MaxCalls /\ nextTimerId <= MaxTimers

\* the application calls startContinuousMode
StartWith(behaviours) ==
    \E points \in StartArguments, hasCallback \in BOOLEAN, beh \in behaviours :
        /\ Room
        /\ \E r \in {startContinuousMode(CS, points, hasCallback, beh)} :
              /\ Install(r, "start", FALSE)
              /\ cooperative' = (cooperative /\ ~(r.invoked /\ beh # "defer"))
        /\ config' = IF continuousMode THEN config
                     ELSE [config EXCEPT !.stepMode = "continuous"]
        /\ UNCHANGED <<physicsEngine, stats, lastCall, optimizedVars>>

CallStart == StartWith(Behaviours)

\* the application calls stopContinuousMode
CallStop ==
    /\ \E r \in {stopContinuousMode(CS)} :
          Install(r, "stop", FALSE)
    /\ cooperative' = FALSE
    /\ UNCHANGED <<config, physicsEngine, stats, lastCall, optimizedVars>>

\* a pending timer fires: continuousStep()
FireWith(behaviours) ==
    \E t \in timers, beh \in behaviours :
        /\ Room
        /\ \E r \in {continuousStep([CS EXCEPT !.timers = @ \ {t}], beh)} :
              /\ Install(r, "fire", t.stale)
              /\ cooperative' = (cooperative /\ ~(r.invoked /\ beh # "defer"))
        /\ UNCHANGED <<config, physicsEngine, stats, lastCall, optimizedVars>>

TimerFires == FireWith(Behaviours)

\* an outstanding callback calls performContinuousStep with the flag it was given
CallbackPerforms ==
    \E cb \in outstanding, a \in ContinuousAnalyses :
        /\ ~cb.performed
        /\ \E r \in {performContinuousStep(config, physicsEngine, stats, CS,
                                          ContinuousScene, a, cb.skip)} :
              /\ physicsStepCounter' = r.physicsStepCounter
              /\ currentGrowthSignals' = r.currentGrowthSignals
              /\ physicsEngine' = r.engine
              /\ stats' = r.stats
              /\ stepsSinceFresh' = IF r.ran /\ stepsSinceFresh >= 0
                                    THEN stepsSinceFresh + 1 ELSE stepsSinceFresh
              /\ cooperative' = (cooperative /\ r.ran)
              /\ lastEvent' = [NoEvent EXCEPT
                                  !.op = "perform", !.after = lastEvent.op,
                                  !.stale = cb.stale,
                                  !.fresh = r.fresh /\ r.ran,
                                  !.enteredMoving = Moving(physicsEngine),
                                  !.performThrew = r.threw,
                                  !.noScores = (~cb.skip /\ a.present
                                                  /\ ~a.hasScores)]
        /\ outstanding' = (outstanding \ {cb}) \cup {[cb EXCEPT !.performed = TRUE]}
        /\ UNCHANGED <<config, continuousMode, continuousIntervalId,
                       continuousCallback, continuousPoints, timers, nextTimerId,
                       calls, lastCall, optimizedVars>>

\* an outstanding callback signals completion (once)
CallbackSignals ==
    \E cb \in outstanding :
        /\ Room
        /\ \E r \in {IF cb.skip THEN skipDone([CS EXCEPT !.outstanding = @ \ {cb}])
                     ELSE analysisDone([CS EXCEPT !.outstanding = @ \ {cb}])} :
              Install(r, "done", cb.stale)
        /\ cooperative' = (cooperative /\ cb.performed)
        /\ UNCHANGED <<config, physicsEngine, stats, lastCall, optimizedVars>>

Next ==
    \/ CallStart
    \/ CallStop
    \/ TimerFires
    \/ CallbackPerforms
    \/ CallbackSignals

Spec == Init /\ [][Next]_vars

\* Continuous mode that is never stopped: stopContinuousMode is not called
\* and the callback does not throw (a throw makes continuousStep call
\* stopContinuousMode).  Every pending timer fires and every outstanding
\* callback signals completion sooner or later.
ReturningBehaviours == {"defer", "signal"}

StartReturning == StartWith(ReturningBehaviours)

TimerFiresReturning == FireWith(ReturningBehaviours)

NextProgress ==
    \/ StartReturning
    \/ TimerFiresReturning
    \/ CallbackPerforms
    \/ CallbackSignals

SpecProgress ==
    /\ Init /\ [][NextProgress]_vars
    /\ WF_vars(TimerFiresReturning)
    /\ WF_vars(CallbackSignals)

----------------------------------------------------------------------------
(* Properties of continuous mode (checked under Spec).                     *)

\* C1: a continuation created before a call of stopContinuousMode (a timer
\* that was pending, the completion function of a callback that was
\* outstanding) never invokes the callback and never schedules a timer
\* afterwards, also when startContinuousMode was called again in between.
C1_StaleContinuationInert ==
    lastEvent.stale => ~lastEvent.invoked /\ ~lastEvent.scheduled

\* C2: whatever the order of start, stop, timer firings and completions, at
\* most one callback invocation is outstanding and at most one timer pending.
C2_AtMostOneContinuation ==
    /\ Cardinality(outstanding) <= 1
    /\ Cardinality(timers) <= 1

\* C3: with a callback that runs performContinuousStep and then signals
\* completion, a request for fresh scores (callback invoked without the skip
\* flag) other than the first one comes after physicsStepsPerAnalysis physics
\* steps since the previous request.
C3_FreshScoresEveryNSteps ==
    (cooperative /\ lastEvent.invoked /\ ~lastEvent.skipFlag /\ lastEvent.gap >= 0)
        => lastEvent.gap = config.physicsStepsPerAnalysis

\* C4: stopContinuousMode leaves continuousMode = false, no timer pending,
\* physicsStepCounter = 0 and currentGrowthSignals = null, whatever the state
\* it is called in.
C4_StopLeavesNothingPending ==
    lastEvent.op = "stop" =>
        /\ ~continuousMode
        /\ timers = {}
        /\ physicsStepCounter = 0
        /\ currentGrowthSignals = <<>>

\* continuous mode was never started
NeverStarted == calls = 0 /\ nextTimerId = 1

\* C5: stopContinuousMode is idempotent: called while continuous mode was
\* never started, or right after another stopContinuousMode, it changes
\* nothing.
C5_StopIdempotent ==
    [][(lastEvent'.op = "stop" /\ (lastEvent.op = "stop" \/ NeverStarted))
          => UNCHANGED progVars]_vars

\* stopContinuousMode called twice in a row after continuous mode had run
C5_Witness ==
    /\ lastEvent.op = "stop" /\ lastEvent.after = "stop"
    /\ calls > 0

\* C6: when the callback raised during a continuous step, continuousMode is
\* false and no timer is pending afterwards, also when the callback had
\* signalled completion before it raised.
C6_ThrowStopsEverything ==
    lastEvent.threw => ~continuousMode /\ timers = {}

----------------------------------------------------------------------------
(* Properties of the stepping loop (checked under SpecCycle).              *)

\* the last operation was a cycle that ran the loop in auto or equilibrium mode
FullCycle ==
    /\ lastCall.op \in {"performAutoStep", "performEquilibriumStep"}
    /\ ~lastCall.skipped

\* the last operation was a cycle that ran the loop
RanCycle ==
    /\ lastCall.op \in {"performManualStep", "performAutoStep",
                        "performEquilibriumStep"}
    /\ ~lastCall.skipped

\* the distance between the first two points of a sequence of points
Distance(points) == Norm(VecSub(points[2], points[1]))

\* the operations that run applyGrowth
StepOps == {"performManualStep", "performAutoStep", "performEquilibriumStep"}

\* C7: in auto and equilibrium mode a cycle with valid scores ends; it has run
\* sub-steps up to the first one whose maxDisplacement is below
\* equilibriumPrecision, or maxPhysicsSteps of them if none is; and
\* stats.physicsSteps is that count, at most maxPhysicsSteps.
C7_ConvergeOrExhaust ==
    FullCycle =>
        LET n == Len(lastCall.subSteps)
        IN  /\ lastCall.left
            /\ stats.physicsSteps = n
            /\ n >= 1 /\ n <= config.maxPhysicsSteps
            /\ \A i \in 1..(n - 1) :
                   ~(lastCall.subSteps[i] < config.equilibriumPrecision)
            /\ \/ lastCall.subSteps[n] < config.equilibriumPrecision
               \/ n = config.maxPhysicsSteps

\* an auto cycle that converged after several sub-steps, within the budget
C7_Witness ==
    /\ lastCall.op = "performAutoStep" /\ ~lastCall.skipped
    /\ stats.physicsSteps > 1
    /\ stats.physicsSteps < config.maxPhysicsSteps
    /\ lastCall.subSteps[stats.physicsSteps] < config.equilibriumPrecision

\* C8: after a cycle stats.equilibriumReached is true exactly when the last
\* executed sub-step had maxDisplacement < equilibriumPrecision; when it is
\* false in auto or equilibrium mode the budget is used up
\* (physicsSteps = maxPhysicsSteps), the loop ended normally and the moved
\* positions are returned.
C8_ExhaustionReported ==
    /\ RanCycle =>
          LET n == Len(lastCall.subSteps)
          IN  stats.equilibriumReached <=>
                  (n >= 1 /\ lastCall.subSteps[n] < config.equilibriumPrecision)
    /\ (FullCycle /\ ~stats.equilibriumReached) =>
          /\ stats.physicsSteps = config.maxPhysicsSteps
          /\ lastCall.left
          /\ Len(lastCall.returned) = Len(lastCall.points)
          /\ lastCall.returned # lastCall.points

\* an equilibrium-mode cycle that used up its budget without converging
C8_Witness ==
    /\ lastCall.op = "performEquilibriumStep" /\ ~lastCall.skipped
    /\ ~stats.equilibriumReached
    /\ stats.physicsSteps = config.maxPhysicsSteps
    /\ Len(lastCall.subSteps) = config.maxPhysicsSteps

C10_Scenario ==
    /\ FullCycle
    /\ Len(lastCall.points) = 2
    /\ physicsEngine.growthRates = (1 :> 1000) @@ (2 :> -1000)
    /\ 2 \in physicsEngine.neighborCache[1]
    /\ physicsEngine.forceStrength = 1000 /\ physicsEngine.damping = 800
    /\ config.maxPhysicsSteps = 100 /\ config.equilibriumPrecision = 1000

\* C10: in the equilibrium scenario the loop ends with equilibriumReached =
\* true in fewer than 100 sub-steps and the final distance between the two
\* points differs from the initial distance.
C10_ScenarioMoves ==
    C10_Scenario =>
        /\ stats.equilibriumReached
        /\ stats.physicsSteps < 100
        /\ Distance(lastCall.returned) # Distance(lastCall.points)

\* what the scenario does: the two contributions cancel, the first sub-step
\* moves nothing and the loop ends there
C10_Observed ==
    C10_Scenario =>
        /\ stats.equilibriumReached
        /\ stats.physicsSteps = 1
        /\ lastCall.subSteps = <<0>>
        /\ lastCall.returned = lastCall.points

----------------------------------------------------------------------------
(* Properties of one cycle (checked under SpecCycle).                      *)

\* C11: a cycle whose scores make no cell active returns the positions it was
\* given and reports maxDisplacement = 0, whatever the earlier cycles left
\* behind (also velocities that were not zero).
C11_ZeroSignalIdempotent ==
    (RanCycle /\ DOMAIN physicsEngine.growthRates = {}) =>
        /\ lastCall.returned = lastCall.points
        /\ stats.maxDisplacement = 0
        /\ stats.totalDisplacement = 0

\* a cycle without active cell that was entered with cells still moving
C11_Witness ==
    /\ RanCycle /\ DOMAIN physicsEngine.growthRates = {}
    /\ lastCall.enteredMoving
    /\ Len(lastCall.cellScores) > 0

\* C12: applyGrowth without analysis results, or with results that carry no
\* cellScores, returns the input positions and changes neither the engine
\* (velocities, growth rates, neighbour cache) nor the stats.
C12_SkipChangesNothing ==
    [][(lastCall'.op \in StepOps /\ lastCall'.skipped) =>
          /\ UNCHANGED <<physicsEngine, stats>>
          /\ lastCall'.returned = lastCall'.points]_vars

\* a skipped cycle on an engine that is moving and holds growth rates
C12_Witness ==
    /\ lastCall.op \in StepOps /\ lastCall.skipped
    /\ lastCall.enteredMoving
    /\ Moving(physicsEngine)
    /\ DOMAIN physicsEngine.growthRates # {}

----------------------------------------------------------------------------
(* Properties of calculateGrowthSignals (checked under SpecSignals).       *)

\* the last operation was calculateGrowthSignals
LastSignals == lastCall.op = "calculateGrowthSignals"

\* the mode table: 1 for grow, -1 for shrink, 0 for inactive
TableSign(mode, score, threshold) ==
    IF score > threshold
    THEN (IF mode \in {"more_grow_only", "more_grow_both"} THEN 1 ELSE -1)
    ELSE IF score < threshold
    THEN (IF mode = "more_grow_both" THEN -1
          ELSE IF mode = "more_shrink_both" THEN 1 ELSE 0)
    ELSE 0

\* the score of cell i in the last call (a missing entry counts as 0)
ScoreAt(i) == IF lastCall.cellScores[i] = <<>> THEN 0 ELSE lastCall.cellScores[i][1]

\* the raw signal the mode table and the power give to cell i
RawSignal(i) ==
    TableSign(config.mode, ScoreAt(i), config.threshold)
      * Pow(Abs(ScoreAt(i) - config.threshold), config.growthPower)

\* the cells the mode table makes active
TableActive == {i \in DOMAIN lastCall.cellScores : RawSignal(i) # 0}

\* C13: calculateGrowthSignals follows the mode table for every score and
\* threshold: the sign of the growth rate is the one the table gives, a cell
\* the table makes inactive (score == threshold included) has no entry, and
\* the magnitude is |score - threshold| (seen with power 1, normalize off).
C13_ModeTable ==
    LastSignals =>
        \A i \in DOMAIN lastCall.cellScores :
            lastCall.cellScores[i] # <<>> =>
                LET sign == TableSign(config.mode, ScoreAt(i), config.threshold)
                    g    == lastCall.growthSignals
                IN  /\ (sign = 0) <=> (i \notin DOMAIN g)
                    /\ sign # 0 => Sign(g[i]) = sign
                    /\ (sign # 0 /\ ~config.normalize /\ config.growthPower = 1) =>
                           Abs(g[i]) = Abs(ScoreAt(i) - config.threshold)
                                         * config.baseGrowthRate
                    /\ ScoreAt(i) = config.threshold => i \notin DOMAIN g

\* the scenario threshold = 10, A = 15, B = 5 under more_shrink_both
C13_Witness ==
    /\ LastSignals
    /\ config.threshold = 10 /\ config.mode = "more_shrink_both"
    /\ lastCall.cellScores = << <<15>>, <<5>> >>
    /\ lastCall.growthSignals[1] < 0 /\ lastCall.growthSignals[2] > 0

\* the largest absolute raw signal over the set S of cells
RECURSIVE MaxRaw(_)
MaxRaw(S) == IF S = {} THEN 0
             ELSE LET i == CHOOSE x \in S : TRUE
                  IN  Max(Abs(RawSignal(i)), MaxRaw(S \ {i}))

\* C14: with normalize set every growth rate is raw / max|raw| * baseGrowthRate:
\* the sign is kept, the largest absolute rate is baseGrowthRate, raw signals
\* [2, -8, 4] with baseGrowthRate 5 give [1.25, -5, 2.5]; without active cell
\* the result is empty.
C14_Normalized ==
    (LastSignals /\ config.normalize) =>
        LET g == lastCall.growthSignals
            m == MaxRaw(TableActive)
        IN  /\ DOMAIN g = TableActive
            /\ \A i \in TableActive :
                  /\ Sign(g[i]) = Sign(RawSignal(i))
                  /\ Abs(g[i] * m - RawSignal(i) * config.baseGrowthRate) < m
                  /\ Abs(g[i]) <= config.baseGrowthRate
            /\ TableActive # {} =>
                  \E i \in TableActive : Abs(g[i]) = config.baseGrowthRate
            /\ (/\ lastCall.cellScores = << <<12>>, <<2>>, <<14>> >>
                /\ config.threshold = 10 /\ config.mode = "more_grow_both"
                /\ config.growthPower = 1 /\ config.baseGrowthRate = 5000)
                 => (g[1] = 1250 /\ g[2] = -5000 /\ g[3] = 2500)

\* raw signals [2, -8, 4] normalized with baseGrowthRate 5
C14_Witness ==
    /\ LastSignals /\ config.normalize
    /\ lastCall.cellScores = << <<12>>, <<2>>, <<14>> >>
    /\ config.threshold = 10 /\ config.mode = "more_grow_both"
    /\ config.growthPower = 1 /\ config.baseGrowthRate = 5000
    /\ DOMAIN lastCall.growthSignals = {1, 2, 3}

\* threshold 10, first score 15, baseGrowthRate 1, normalize off
PowerExample ==
    /\ LastSignals /\ ~config.normalize
    /\ config.threshold = 10 /\ config.baseGrowthRate = 1000
    /\ config.mode = "more_grow_only"
    /\ Len(lastCall.cellScores) >= 1 /\ lastCall.cellScores[1] = <<15>>

\* C15: with normalize off the growth rate of an active cell is
\* sign * magnitude^growthPower * baseGrowthRate; for threshold 10, score 15
\* and baseGrowthRate 1 it is 5, 25 and 125 for the powers 1, 2 and 3.
C15_PowerLaw ==
    /\ (LastSignals /\ ~config.normalize) =>
          /\ DOMAIN lastCall.growthSignals = TableActive
          /\ \A i \in TableActive :
                lastCall.growthSignals[i] = RawSignal(i) * config.baseGrowthRate
    /\ PowerExample =>
          lastCall.growthSignals[1] =
              CASE config.growthPower = 1 -> 5000
                [] config.growthPower = 2 -> 25000
                [] OTHER -> 125000

\* the example with power 3
C15_Witness ==
    /\ PowerExample /\ config.growthPower = 3
    /\ lastCall.growthSignals[1] = 125000

\* the scores of the last call with 0 written into the missing entries
ZeroFilled ==
    SeqOf(Len(lastCall.cellScores),
          [i \in DOMAIN lastCall.cellScores |->
              IF lastCall.cellScores[i] = <<>> THEN <<0>> ELSE lastCall.cellScores[i]])

\* C16: a cell whose score entry is missing is handled exactly as a cell with
\* score 0, and it is inactive in every mode whenever threshold >= 0.
C16_MissingScoreInactive ==
    LastSignals =>
        /\ lastCall.growthSignals =
               calculateGrowthSignals(config, ZeroFilled).growthSignals
        /\ config.threshold >= 0 =>
               \A i \in DOMAIN lastCall.cellScores :
                   lastCall.cellScores[i] = <<>> =>
                       i \notin DOMAIN lastCall.growthSignals

\* C17: after calculateGrowthSignals the returned mapping holds exactly the
\* active cells, activePoints is the number of entries, growingPoints the
\* number of positive and shrinkingPoints the number of negative entries,
\* activePoints = growingPoints + shrinkingPoints, whatever the counters were
\* before the call.
C17_CountsMatchSignals ==
    LastSignals =>
        LET g == lastCall.growthSignals
        IN  /\ DOMAIN g = TableActive
            /\ stats.activePoints = Cardinality(DOMAIN g)
            /\ stats.growingPoints = Cardinality({i \in DOMAIN g : g[i] > 0})
            /\ stats.shrinkingPoints = Cardinality({i \in DOMAIN g : g[i] < 0})
            /\ stats.activePoints = stats.growingPoints + stats.shrinkingPoints

\* a call that counts fewer cells than the counters held before it
C17_Witness ==
    /\ LastSignals
    /\ lastCall.statsBefore.activePoints = 3
    /\ lastCall.statsBefore.shrinkingPoints = 2
    /\ stats.activePoints = 1 /\ stats.growingPoints = 1

\* the neighbours of a cell in the flattened cache of the optimized engine
FastNeighbors(i) ==
    {getCellNeighbors(optimizedEngine, i)[k] :
        k \in 1..Len(getCellNeighbors(optimizedEngine, i))}

\* C18: the neighbour relation that rebuildNeighborCache builds is
\* symmetric, in the Map of the Map-based engine and in the flattened arrays
\* of the optimized engine: j is a neighbour of i iff i is a neighbour of j.
C18_NeighborsSymmetric ==
    /\ \A i \in DOMAIN physicsEngine.neighborCache :
          \A j \in physicsEngine.neighborCache[i] :
              /\ j \in DOMAIN physicsEngine.neighborCache
              /\ i \in physicsEngine.neighborCache[j]
    /\ \A i, j \in 1..optimizedEngine.size :
          j \in FastNeighbors(i) <=> i \in FastNeighbors(j)

\* both engines hold neighbours, and the optimized engine built them for two
\* cells whose shared-vertex counts differ between the two directions
C18_Witness ==
    /\ lastCall.op = "applyPhysicsStepFast"
    /\ Len(lastCall.cells) >= 2
    /\ countSharedVerticesFast(lastCall.cells[1], lastCall.cells[2]) >= 2
    /\ countSharedVerticesFast(lastCall.cells[2], lastCall.cells[1]) < 2
    /\ 2 \in FastNeighbors(1)
    /\ 1 \in FastNeighbors(2)
    /\ \E i \in DOMAIN physicsEngine.neighborCache :
          physicsEngine.neighborCache[i] # {}

\* the rounded vertex positions that two polygons have in common
SharedPositions(cell1, cell2) ==
    {hashVertex(cell1[k]) : k \in DOMAIN cell1}
        \cap {hashVertex(cell2[k]) : k \in DOMAIN cell2}

\* C19: after the optimized engine built its cache, two distinct cells are
\* neighbours iff their polygons have at least two rounded vertex positions
\* in common; a position that is repeated in a vertex list counts once.
C19_NeighborsIffTwoShared ==
    lastCall.op = "applyPhysicsStepFast" =>
        \A i, j \in DOMAIN lastCall.cells :
            i # j =>
                (j \in FastNeighbors(i)
                    <=> Cardinality(SharedPositions(lastCall.cells[i],
                                                    lastCall.cells[j])) >= 2)

\* the force on a cell after the last step of the optimized engine
FastForce(k) == MapGet(optimizedEngine.forces, k, ZeroVec)

\* cell a of a two-cell system drives a force in the Map-based engine, its
\* neighbour b has no growth rate
MapOneActive(a, b) ==
    /\ DOMAIN physicsEngine.forces = {1, 2}
    /\ a # b
    /\ Abs(MapGet(physicsEngine.growthRates, a, 0)) >= RateEpsilon
    /\ MapGet(physicsEngine.growthRates, b, 0) = 0
    /\ b \in MapGet(physicsEngine.neighborCache, a, {})

\* the same for the last step of the optimized engine
FastOneActive(a, b) ==
    /\ lastCall.op = "applyPhysicsStepFast"
    /\ Len(lastCall.points) = 2
    /\ a # b
    /\ Abs(MapGet(optimizedEngine.growthRates, a, 0)) > RateEpsilon
    /\ MapGet(optimizedEngine.growthRates, b, 0) = 0
    /\ b \in FastNeighbors(a)

\* C20: for two neighbouring cells of which one is active (rate g) and the
\* other has rate 0, the force on the passive cell after the accumulation of
\* a sub-step is the negation of the force on the active cell, in both
\* engines.
C20_ThirdLaw ==
    \A a, b \in 1..2 :
        /\ MapOneActive(a, b) =>
              physicsEngine.forces[b] = VecSub(ZeroVec, physicsEngine.forces[a])
        /\ FastOneActive(a, b) => FastForce(b) = VecSub(ZeroVec, FastForce(a))

\* both engines have pushed a passive cell with a force that is not zero
C20_Witness ==
    \E a, b \in 1..2 :
        /\ MapOneActive(a, b)
        /\ physicsEngine.forces[b] # ZeroVec
        /\ FastOneActive(a, b)
        /\ FastForce(b) # ZeroVec

\* both cells of a two-cell system drive a force in the Map-based engine
MapBothActive(a, b) ==
    /\ DOMAIN physicsEngine.forces = {1, 2}
    /\ a # b
    /\ Abs(MapGet(physicsEngine.growthRates, a, 0)) > RateEpsilon
    /\ Abs(MapGet(physicsEngine.growthRates, b, 0)) > RateEpsilon
    /\ b \in MapGet(physicsEngine.neighborCache, a, {})

\* the same for the last step of the optimized engine
FastBothActive(a, b) ==
    /\ lastCall.op = "applyPhysicsStepFast"
    /\ Len(lastCall.points) = 2
    /\ a # b
    /\ Abs(MapGet(optimizedEngine.growthRates, a, 0)) > RateEpsilon
    /\ Abs(MapGet(optimizedEngine.growthRates, b, 0)) > RateEpsilon
    /\ b \in FastNeighbors(a)

\* F(from -> to, rate of from) between the two points of the pair
PairForce(eng, rates, from, to) ==
    calculateForce(eng, ForceScene.points[from], ForceScene.points[to],
                   MapGet(rates, from, 0))

\* C21: for two neighbouring cells A and B that are both active, the force
\* accumulated on B in a sub-step is one contribution driven by A's rate and
\* one driven by B's rate, F(A->B, gA) - F(B->A, gB), each counted once, in
\* both engines.
C21_EachContributionOnce ==
    \A a, b \in 1..2 :
        /\ MapBothActive(a, b) =>
              physicsEngine.forces[b] =
                  VecSub(PairForce(physicsEngine, physicsEngine.growthRates, a, b),
                         PairForce(physicsEngine, physicsEngine.growthRates, b, a))
        /\ FastBothActive(a, b) =>
              FastForce(b) =
                  VecSub(PairForce(optimizedEngine, optimizedEngine.growthRates, a, b),
                         PairForce(optimizedEngine, optimizedEngine.growthRates, b, a))

\* what the Map-based engine accumulates: every contribution twice
C21_Observed ==
    \A a, b \in 1..2 :
        MapBothActive(a, b) =>
            LET once == VecSub(PairForce(physicsEngine, physicsEngine.growthRates, a, b),
                               PairForce(physicsEngine, physicsEngine.growthRates, b, a))
            IN  physicsEngine.forces[b] = VecAdd(once, once)

\* the optimized engine alone accumulates every contribution once
C21_FastOnce ==
    \A a, b \in 1..2 :
        FastBothActive(a, b) =>
            FastForce(b) =
                VecSub(PairForce(optimizedEngine, optimizedEngine.growthRates, a, b),
                       PairForce(optimizedEngine, optimizedEngine.growthRates, b, a))

ForceOps == {"calculateForce", "calculateForceFast"}

\* the distance between the two points of the last call of the force law
CallDistance == Norm(VecSub(lastCall.call.toPoint, ForceOrigin))

\* C22: the magnitude of the force that calculateForce (calculateForceFast)
\* returns never exceeds maxForce, and every component of the force has the
\* sign of growthRate * forceStrength along the direction to the target.
C22_ClampKeepsSign ==
    lastCall.op \in ForceOps =>
        LET c == lastCall.call
        IN  /\ Norm(c.force) <= c.maxForce * 1000
            /\ CallDistance >= MinDistance =>
                  \A k \in 1..3 :
                      Sign(c.force[k]) =
                          Sign(c.growthRate * c.forceStrength)
                            * Sign(c.toPoint[k] - ForceOrigin[k])

\* a pull whose unclamped magnitude is far above maxForce came out at maxForce
C22_Witness ==
    /\ lastCall.op \in ForceOps
    /\ lastCall.call.toPoint = <<500000, 0, 0>>
    /\ lastCall.call.growthRate < 0
    /\ lastCall.call.force = <<-1000 * lastCall.call.maxForce, 0, 0>>

\* the point lies on the positive x axis, not closer than minDistance
OnAxis(p) == p[1] >= MinDistance /\ p[2] = 0 /\ p[3] = 0

\* the last two calls of calculateForce had the same growth rate, direction
\* and physics parameters, and the second target is farther away
FartherCall ==
    /\ lastCall.op = "calculateForce"
    /\ lastCall.previous # <<>>
    /\ lastCall.previous[1].growthRate = lastCall.call.growthRate
    /\ lastCall.previous[1].maxForce = lastCall.call.maxForce
    /\ lastCall.previous[1].forceStrength = lastCall.call.forceStrength
    /\ OnAxis(lastCall.previous[1].toPoint)
    /\ OnAxis(lastCall.call.toPoint)
    /\ lastCall.previous[1].toPoint[1] < lastCall.call.toPoint[1]

\* C23 as stated: for a fixed growth rate and direction the magnitude of the
\* force is strictly smaller at the larger of two distances.
C23_StrictlyDecreasing ==
    FartherCall => Norm(lastCall.call.force) < Norm(lastCall.previous[1].force)

\* C23 as amended: the magnitude is never larger at the larger distance, and
\* it is strictly smaller when the rate is not zero and the magnitude at the
\* smaller distance is below maxForce (not clamped).
C23_NonIncreasing ==
    FartherCall =>
        /\ Norm(lastCall.call.force) <= Norm(lastCall.previous[1].force)
        /\ (/\ lastCall.call.growthRate # 0
            /\ Norm(lastCall.previous[1].force) < 1000 * lastCall.call.maxForce)
              => Norm(lastCall.call.force) < Norm(lastCall.previous[1].force)

\* an unclamped force was followed by a strictly weaker one farther away
C23_Witness ==
    /\ FartherCall
    /\ lastCall.call.growthRate # 0
    /\ Norm(lastCall.previous[1].force) < 1000 * lastCall.call.maxForce
    /\ Norm(lastCall.call.force) < Norm(lastCall.previous[1].force)
    /\ Norm(lastCall.call.force) > 0

\* C24: a call of the force law on two points closer than minDistance
\* returns the zero vector, and a sub-step on two generator points closer
\* than minDistance returns them where they were.
C24_CloseIsZero ==
    /\ (lastCall.op \in ForceOps /\ CallDistance < MinDistance)
          => lastCall.call.force = ZeroVec
    /\ (/\ lastCall.op \in StepOps
        /\ ~lastCall.skipped
        /\ Len(lastCall.points) = 2
        /\ Distance(lastCall.points) < MinDistance)
          => /\ lastCall.returned = lastCall.points
             /\ \A k \in DOMAIN physicsEngine.forces :
                   physicsEngine.forces[k] = ZeroVec

\* a sub-step ran with an active cell on two points that are closer than
\* minDistance but do not coincide
C24_Witness ==
    /\ lastCall.op \in StepOps
    /\ ~lastCall.skipped
    /\ Len(lastCall.points) = 2
    /\ Distance(lastCall.points) < MinDistance
    /\ Distance(lastCall.points) > 0
    /\ physicsEngine.growthRates # EmptyMap
    /\ DOMAIN physicsEngine.forces = {1, 2}

\* no force acts on cell k in the cycle that ran last: it drives none, and no
\* cell that drives one has it as a neighbour
Quiet(k) ==
    \A a \in DOMAIN physicsEngine.growthRates :
        ~(Abs(physicsEngine.growthRates[a]) < RateEpsilon) =>
            /\ a # k
            /\ k \notin MapGet(physicsEngine.neighborCache, a, {})

GrewStorage ==
    /\ lastCall.op = "setGrowthRateFast"
    /\ lastCall.sizeBefore > 0
    /\ lastCall.cellIndex > lastCall.sizeBefore

\* C26: setGrowthRate of the optimized engine with an index at or behind the
\* end of the arrays enlarges them: the arrays then reach the index, the
\* rate is stored there, and every other growth rate and every velocity is
\* what it was before the call.
C26_ResizeKeepsContents ==
    [][(lastCall'.op = "setGrowthRateFast"
          /\ optimizedEngine.allocated
          /\ lastCall'.cellIndex > optimizedEngine.size) =>
          /\ optimizedEngine'.size >= lastCall'.cellIndex
          /\ MapGet(optimizedEngine'.growthRates, lastCall'.cellIndex, 0)
                = lastCall'.rate
          /\ \A k \in 1..optimizedEngine.size :
                MapGet(optimizedEngine'.growthRates, k, 0)
                    = MapGet(optimizedEngine.growthRates, k, 0)
          /\ optimizedEngine'.velocities = optimizedEngine.velocities]_vars

\* the arrays of a moving engine that held the rate of another cell were
\* enlarged for a rate that is not zero
C26_Witness ==
    /\ GrewStorage
    /\ lastCall.rate # 0
    /\ optimizedEngine.size >= lastCall.cellIndex
    /\ optimizedEngine.velocities # EmptyMap
    /\ \E k \in DOMAIN optimizedEngine.growthRates : k # lastCall.cellIndex

\* C27: velocities are zero when a growth cycle starts: at the first
\* sub-step of applyGrowth, and at the first sub-step that
\* performContinuousStep runs on freshly computed growth signals.
C27_CycleStartsAtRest ==
    /\ RanCycle => \A k \in DOMAIN lastCall.velocitiesBefore :
                       lastCall.velocitiesBefore[k] = ZeroVec
    /\ (lastEvent.op = "perform" /\ lastEvent.fresh) => ~lastEvent.enteredMoving

\* the cells that the last cycle of the growth system built from its scene
LastCycleCells ==
    LET scene == CHOOSE sc \in CacheScenes : sc.points = lastCall.points
    IN  buildVoronoiCells(scene.points, scene.computation)

\* C28: when applyPhysicsStep has returned, the neighbour cache is marked
\* invalid, and the neighbour lists that the step read were built in that
\* step from the cells it was given: in the Map-based engine whenever a cell
\* drove a force, in the optimized engine always.
C28_CacheRebuiltEveryStep ==
    /\ RanCycle =>
          /\ ~physicsEngine.neighborCacheValid
          /\ physicsEngine.neighborCache =
                 IF \E a \in DOMAIN physicsEngine.growthRates :
                        ~(Abs(physicsEngine.growthRates[a]) < RateEpsilon)
                 THEN rebuildNeighborCache(LastCycleCells)
                 ELSE EmptyMap
    /\ lastCall.op = "applyPhysicsStepFast" =>
          /\ ~optimizedEngine.neighborCacheValid
          /\ \A i \in DOMAIN lastCall.cells :
                FastNeighbors(i) = neighborSets(lastCall.cells)[i]

\* the optimized engine has stepped on cells that are not neighbours while
\* its points still moved from a step on cells that are
C28_Witness ==
    /\ lastCall.op = "applyPhysicsStepFast"
    /\ lastCall.points = ApartScene.points
    /\ optimizedEngine.neighborIndices = <<>>
    /\ optimizedEngine.velocities # EmptyMap

\* C29: after the optimized engine has rebuilt its neighbour cache on n cells
\* (inside a step on n points), neighborOffsets starts at 0, never decreases
\* and ends at the length of neighborIndices, and getCellNeighbors(i) holds
\* exactly the neighbours found for cell i, each once and never i itself.
C29_FlattenedConsistent ==
    lastCall.op = "applyPhysicsStepFast" =>
        LET n       == Len(lastCall.cells)
            offsets == optimizedEngine.neighborOffsets
            sets    == neighborSets(lastCall.cells)
        IN  /\ Len(offsets) = n + 1
            /\ offsets[1] = 0
            /\ \A k \in 1..n : offsets[k] <= offsets[k + 1]
            /\ offsets[n + 1] = Len(optimizedEngine.neighborIndices)
            /\ \A i \in 1..n :
                  LET list == getCellNeighbors(optimizedEngine, i)
                  IN  /\ {list[k] : k \in DOMAIN list} = sets[i]
                      /\ Len(list) = Cardinality(sets[i])
                      /\ \A k \in DOMAIN list : list[k] # i

\* three cells were flattened: the third is a neighbour of both others, which
\* are not neighbours of each other
C29_Witness ==
    /\ lastCall.op = "applyPhysicsStepFast"
    /\ Len(lastCall.cells) = 3
    /\ optimizedEngine.neighborOffsets = <<0, 1, 2, 4>>
    /\ Len(getCellNeighbors(optimizedEngine, 3)) = 2

\* C30: after applyGrowthSignals the growth rates of the engine are exactly
\* the entries of the signals it was given, whatever rates the engine held
\* before; after a cycle they are exactly the signals calculated from the
\* scores of that cycle.
C30_RatesAreTheSignals ==
    /\ lastCall.op = "applyGrowthSignals" =>
          physicsEngine.growthRates = lastCall.growthSignals
    /\ RanCycle =>
          physicsEngine.growthRates =
              calculateGrowthSignals(config, lastCall.cellScores).growthSignals

\* a cell that had a growth rate has no signal now, in a call of
\* applyGrowthSignals that set the rate of another cell
C30_Witness ==
    /\ lastCall.op = "applyGrowthSignals"
    /\ \E c \in DOMAIN lastCall.ratesBefore :
          /\ c \notin DOMAIN lastCall.growthSignals
          /\ c \notin DOMAIN physicsEngine.growthRates
    /\ lastCall.growthSignals # EmptyMap

\* the cells that calculateGrowthSignals counted in stats.activePoints in the
\* last cycle
CountedActive ==
    {i \in DOMAIN lastCall.cellScores :
        ModeDecision(config, ScoreOf(lastCall.cellScores[i])).signalMagnitude > 0}

\* C31: every cell counted in stats.activePoints drives a force.  On the row
\* of three cells, whose middle cell is never active, an active outer cell
\* pushes or pulls the middle cell and takes the reaction: after the sub-step
\* of a manual cycle the force on every counted cell is not zero.
C31_ActiveCellsDrive ==
    (RanCycle /\ lastCall.points = RowScene.points) =>
        /\ stats.activePoints = Cardinality(CountedActive)
        /\ \A i \in CountedActive :
              MapGet(physicsEngine.forces, i, ZeroVec) # ZeroVec

\* what the code does: the cells that drive are those whose rate is at least
\* the cut-off 0.001 in absolute value
C31_Observed ==
    (RanCycle /\ lastCall.points = RowScene.points) =>
        \A i \in CountedActive :
            LET rate == calculateGrowthSignals(config,
                            lastCall.cellScores).growthSignals[i]
            IN  (MapGet(physicsEngine.forces, i, ZeroVec) # ZeroVec)
                    <=> ~(Abs(rate) < RateEpsilon)

\* the cells whose growth rate passes the activity cut-off of the engine
Driving == {a \in DOMAIN physicsEngine.growthRates :
               ~(Abs(physicsEngine.growthRates[a]) < RateEpsilon)}

\* a manual cycle (one sub-step from rest) on two neighbouring cells at
\* least minDistance apart, exactly one of them active
OneActiveOfPair ==
    /\ RanCycle /\ lastCall.op = "performManualStep"
    /\ Len(lastCall.points) = 2
    /\ Distance(lastCall.points) >= MinDistance
    /\ Cardinality(Driving) = 1 /\ Driving \subseteq {1, 2}

\* C32: two neighbouring cells at rest, at least minDistance apart, one of
\* them active: after the sub-step the two points are farther apart than
\* before when the active rate is positive, and closer when it is negative.
C32_PushApartPullTogether ==
    OneActiveOfPair =>
        \A a \in Driving :
            /\ physicsEngine.growthRates[a] > 0 =>
                  Distance(lastCall.returned) > Distance(lastCall.points)
            /\ physicsEngine.growthRates[a] < 0 =>
                  Distance(lastCall.returned) < Distance(lastCall.points)

\* a shrinking cell has pulled a close neighbour nearer
C32_Witness ==
    /\ OneActiveOfPair
    /\ \E a \in Driving : physicsEngine.growthRates[a] < 0
    /\ Distance(lastCall.points) < 20000
    /\ Distance(lastCall.returned) < Distance(lastCall.points)

\* (v + f * dt) * damping, component by component
DampedVelocity(damping, v, f) ==
    [c \in 1..3 |-> DivT((v[c] + DivT(f[c] * DeltaTime, 1000)) * damping, 1000)]

\* v * dt, component by component
Displacement(v) == [c \in 1..3 |-> DivT(v[c] * DeltaTime, 1000)]

\* the sub-step that lastCall records took the velocities before to the
\* velocities after under the forces, and the points to the returned points
IntegratedAsSpecified(damping, velocitiesAfter, forces) ==
    LET n    == Len(lastCall.points)
        old(k) == MapGet(lastCall.velocitiesBefore, k, ZeroVec)
        new(k) == MapGet(velocitiesAfter, k, ZeroVec)
        f(k)   == MapGet(forces, k, ZeroVec)
    IN  /\ \A k \in 1..n :
              /\ \A c \in 1..3 : new(k)[c] = DampedVelocity(damping, old(k), f(k))[c]
              /\ \A c \in 1..3 :
                    lastCall.returned[k][c] =
                        lastCall.points[k][c] + Displacement(new(k))[c]
        /\ \A k \in 1..n : Norm(Displacement(new(k))) <= lastCall.subSteps[1]
        /\ n > 0 => \E k \in 1..n :
                        Norm(Displacement(new(k))) = lastCall.subSteps[1]

\* C33: in a sub-step every cell's new velocity is (old velocity + force *
\* dt) * damping and its new position is the old position + new velocity *
\* dt, the forces being those of the positions at the start of the sub-step,
\* and maxDisplacement is the largest |new velocity * dt|; in the single
\* sub-step of a manual cycle of the Map-based engine and in every step of
\* the optimized engine.
C33_IntegrationRule ==
    /\ (RanCycle /\ lastCall.op = "performManualStep") =>
          /\ IntegratedAsSpecified(physicsEngine.damping,
                                   physicsEngine.velocities,
                                   physicsEngine.forces)
          /\ \A k \in 1..Len(lastCall.points) :
                MapGet(physicsEngine.forces, k, ZeroVec) =
                    AccumulateForces(physicsEngine, lastCall.points)[k]
    /\ lastCall.op = "applyPhysicsStepFast" =>
          /\ IntegratedAsSpecified(optimizedEngine.damping,
                                   optimizedEngine.velocities,
                                   optimizedEngine.forces)
          /\ \A k \in 1..Len(lastCall.points) :
                MapGet(optimizedEngine.forces, k, ZeroVec) =
                    accumulateForcesFast(optimizedEngine, lastCall.points)[k]

\* a step of the optimized engine on points that were moving and are pushed
C33_Witness ==
    /\ lastCall.op = "applyPhysicsStepFast"
    /\ lastCall.velocitiesBefore # EmptyMap
    /\ optimizedEngine.forces # EmptyMap
    /\ lastCall.subSteps[1] > 0

\* C34: in continuous mode a performContinuousStep that is asked to use
\* fresh analysis results and is handed results without cellScores does not
\* throw and changes neither the cached growth signals nor the stats.
C34_NoScoresIsSkipped ==
    [][(lastEvent'.op = "perform" /\ lastEvent'.noScores /\ continuousMode)
          => /\ ~lastEvent'.performThrew
             /\ UNCHANGED <<stats, currentGrowthSignals>>]_vars

\* what the code does: such a call throws out of calculateGrowthSignals after
\* the three counters of the stats were zeroed, and changes nothing else
C34_Observed ==
    [][lastEvent'.performThrew =>
          /\ UNCHANGED <<currentGrowthSignals, physicsEngine, physicsStepCounter>>
          /\ stats' = [stats EXCEPT !.activePoints = 0, !.growingPoints = 0,
                                    !.shrinkingPoints = 0]]_vars

\* the vector sum of an engine's accumulated forces
TotalForce(forces) == SumVec(DOMAIN forces, forces)

\* C35: after the force accumulation of a sub-step the forces over all cells
\* sum to the zero vector, in both engines: every force is applied to the
\* neighbour and, negated, to the cell that drives it.
C35_ForcesSumToZero ==
    /\ TotalForce(physicsEngine.forces) = ZeroVec
    /\ TotalForce(optimizedEngine.forces) = ZeroVec

\* both engines hold forces; in the Map-based engine both cells are active
\* with different rates
C35_Witness ==
    /\ \E k \in DOMAIN physicsEngine.forces : physicsEngine.forces[k] # ZeroVec
    /\ \E k \in DOMAIN optimizedEngine.forces : optimizedEngine.forces[k] # ZeroVec
    /\ DOMAIN physicsEngine.growthRates = {1, 2}
    /\ physicsEngine.growthRates[1] # physicsEngine.growthRates[2]

\* the cells the optimized engine treated as active in its last step
FastActive ==
    {optimizedEngine.activeIndices[k] : k \in 1..optimizedEngine.activeCount}

\* C36: a growth rate r with |r| > 0.001 that setGrowthRate stored for a cell
\* below the point count is still there in the next applyPhysicsStep of the
\* optimized engine, and the cell is active with rate r, whatever size the
\* arrays had before the step.
C36_RatesSurviveUntilStep ==
    lastCall.op = "applyPhysicsStepFast" =>
        \A i \in DOMAIN lastCall.ratesBefore :
            (i <= Len(lastCall.points)
               /\ Abs(lastCall.ratesBefore[i]) > RateEpsilon)
            => /\ i \in FastActive
               /\ MapGet(optimizedEngine.growthRates, i, 0)
                      = lastCall.ratesBefore[i]

\* what the code does: the rates survive exactly when the arrays already had
\* the size of the points; otherwise the step allocates anew and no cell is
\* active
C36_Observed ==
    lastCall.op = "applyPhysicsStepFast" =>
        IF lastCall.sizeBefore = Len(lastCall.points)
        THEN \A i \in DOMAIN lastCall.ratesBefore :
                 (i <= Len(lastCall.points)
                    /\ Abs(lastCall.ratesBefore[i]) > RateEpsilon)
                 => /\ i \in FastActive
                    /\ optimizedEngine.growthRates[i] = lastCall.ratesBefore[i]
        ELSE optimizedEngine.growthRates = EmptyMap /\ FastActive = {}

\* two cells that the Map-based engine holds as neighbours both have a rate
TwoActiveNeighbours ==
    \E a \in DOMAIN lastCall.rates :
        \E b \in MapGet(physicsEngine.neighborCache, a, {}) :
            b \in DOMAIN lastCall.rates

\* C37: from rest, with the same points, cells, growth rates and parameters,
\* one applyPhysicsStep of the Map-based engine and one of the optimized
\* engine return the same updated points and the same maxDisplacement, also
\* when two neighbouring cells are both active.
C37_EnginesAgree ==
    lastCall.op = "stepBothEngines" =>
        /\ lastCall.returned = lastCall.returnedFast
        /\ lastCall.subSteps[1] = lastCall.maxDisplacementFast

\* what the code does: the two engines agree whenever no two neighbouring
\* cells are both active
C37_Observed ==
    (lastCall.op = "stepBothEngines" /\ ~TwoActiveNeighbours) =>
        /\ lastCall.returned = lastCall.returnedFast
        /\ lastCall.subSteps[1] = lastCall.maxDisplacementFast

\* C38: startContinuousMode while continuous mode is running changes nothing:
\* the callback is not invoked, no timer is set, and the stored points,
\* computation and callback stay those of the start that is running.
C38_StartWhileRunningIsNoOp ==
    [][(lastEvent'.op = "start" /\ continuousMode) =>
          /\ UNCHANGED <<progVars, outstanding, calls>>
          /\ ~lastEvent'.invoked /\ ~lastEvent'.scheduled]_vars

\* a second start, with other points, came while a callback of the first
\* start was outstanding, and the stored points are those of the first
C38_Witness ==
    /\ lastEvent.op = "start" /\ lastEvent.after = "start"
    /\ continuousMode /\ ~lastEvent.invoked
    /\ continuousPoints = 1
    /\ Cardinality(outstanding) = 1

\* C39: in a continuous mode that is not stopped, with timers that fire and
\* callbacks that signal completion, the loop always has a continuation
\* pending (a timer or an outstanding callback), and the callback is invoked
\* again and again: from every number of invocations the loop goes on to the
\* next one, as far as the bounds of the model reach.
C39_LoopKeepsGoing ==
    /\ [](continuousMode => (timers # {} \/ outstanding # {}))
    /\ \A n \in 0..(MaxCalls - 1) :
          (continuousMode /\ continuousCallback /\ calls = n)
              ~> (calls > n \/ ~Room)

\* the callback was invoked for the last time that the bound allows, from a
\* timer, with the mode still on
C39_Witness ==
    /\ continuousMode /\ continuousCallback
    /\ calls = MaxCalls
    /\ lastEvent.op = "fire" /\ lastEvent.invoked

\* C40: within one applyGrowth call every sub-step works with the same
\* neighbour relation: the cache a sub-step leaves behind is the same at
\* every sub-step, and where neighbours were looked up it is the relation of
\* the cell polygons built from the computation passed to the call, however
\* far the points have moved in between.
C40_SameCellsEverySubStep ==
    (lastCall.op \in {"performManualStep", "performAutoStep",
                      "performEquilibriumStep"} /\ ~lastCall.skipped) =>
        LET cells == buildVoronoiCells(lastCall.points, lastCall.computation)
        IN  /\ Len(lastCall.caches) = Len(lastCall.subSteps)
            /\ \A k \in DOMAIN lastCall.caches :
                  /\ lastCall.caches[k] = lastCall.caches[1]
                  /\ lastCall.caches[k] \in {EmptyMap, rebuildNeighborCache(cells)}

\* a call of several sub-steps, each of which moved the points and looked
\* neighbours up
C40_Witness ==
    /\ lastCall.op \in {"performAutoStep", "performEquilibriumStep"}
    /\ ~lastCall.skipped
    /\ Len(lastCall.caches) >= 2
    /\ lastCall.subSteps[1] > 0 /\ lastCall.subSteps[2] > 0
    /\ lastCall.caches[2] # EmptyMap
    /\ \E i \in DOMAIN lastCall.caches[2] : lastCall.caches[2][i] # {}

====
